---- MODULE Spec2Model ----
(***************************************************************************)
(* Model of bakito/crd-gen: the CRD schema-to-type-model compiler          *)
(* (internal/openapi/parser.go, first revision in the file, lines 1-354),  *)
(* the generate-crd-api command that drives it and the renderer's          *)
(* generateTypesCode (internal/render).                                    *)
(*                                                                         *)
(* Go strings are TLA+ strings; a character is a string of length one.     *)
(* Go maps are TLA+ functions; the order in which Go iterates a map is     *)
(* unspecified and is modelled by the variable iterOrder (see MapKeys).    *)
(* A nil pointer / nil slice / nil map is the empty sequence <<>>, a       *)
(* non-nil pointer to v is the one-element sequence <<v>>.                 *)
(***************************************************************************)
EXTENDS Integers, Sequences, FiniteSets, TLC

(***************************************************************************)
(* Bounds of the model.                                                    *)
(***************************************************************************)
\* longest batch of CRD files given on the command line
MaxBatch == 2
\* map iteration orders 0..MaxOrder (see MapKeys): every order of a map of up
\* to three keys
MaxOrder == 5
\* number of times the command is run on the same input
MaxRuns == 2

\* the longest sequence of direct calls of newUniqFieldName
MaxCalls == 6

(***************************************************************************)
(* Strings                                                                 *)
(***************************************************************************)
Ascii == "\n \"#$*,-./0123456789:ABCDEFGHIJKLMNOPQRSTUVWXYZ[]_abcdefghijklmnopqrstuvwxyz{}"
Lower == "abcdefghijklmnopqrstuvwxyz"
Upper == "ABCDEFGHIJKLMNOPQRSTUVWXYZ"
Digits == "0123456789"

Char(s, i) == SubSeq(s, i, i)

CharsOf(s) == {Char(s, i) : i \in 1..Len(s)}

\* the pairs <<c, d>> of characters the model uses with byte value c < d
CharLess == {<<Char(Ascii, p[1]), Char(Ascii, p[2])>> :
                p \in {q \in (1..Len(Ascii)) \X (1..Len(Ascii)) : q[1] < q[2]}}

LettersAndNumbers == CharsOf(Lower) \cup CharsOf(Upper) \cup CharsOf(Digits)

\* unicode.IsLetter(r) || unicode.IsNumber(r)
IsLetterOrNumber(c) == c \in LettersAndNumbers

\* the pairs <<lower-case letter, its upper-case letter>>
Cases == {<<Char(Lower, i), Char(Upper, i)>> : i \in 1..Len(Lower)}

\* strings.ToUpper of a one-byte string
ToUpper(c) == IF \E p \in Cases : p[1] = c THEN (CHOOSE p \in Cases : p[1] = c)[2] ELSE c

\* Body of the value of x: a local variable of the code, computed once
With(x, Body(_)) == CHOOSE r \in {Body(v) : v \in {x}} : TRUE

\* strings.Contains(s, c) for a one-character c
Contains(s, c) == \E i \in 1..Len(s) : Char(s, i) = c

\* strings.Index(s, c) for a one-character c that occurs in s
Index(s, c) == CHOOSE i \in 1..Len(s) : Char(s, i) = c /\ \A j \in 1..(i - 1) : Char(s, j) # c

\* strings.Replace(s, old, new, 1) for a one-character old
ReplaceFirst(s, old, new) ==
    IF Contains(s, old)
    THEN SubSeq(s, 1, Index(s, old) - 1) \o new \o SubSeq(s, Index(s, old) + 1, Len(s))
    ELSE s

RECURSIVE ReplaceAll(_, _, _)
\* strings.ReplaceAll(s, old, new) for a one-character old
ReplaceAll(s, old, new) ==
    IF ~Contains(s, old) THEN s
    ELSE With(Index(s, old), LAMBDA i :
              SubSeq(s, 1, i - 1) \o new \o ReplaceAll(SubSeq(s, i + 1, Len(s)), old, new))

RECURSIVE Split(_, _)
\* strings.Split(s, sep) for a one-character sep; v is the value of s
Split(s, sep) ==
    CHOOSE r \in {IF Contains(v, sep)
                  THEN <<SubSeq(v, 1, Index(v, sep) - 1)>>
                          \o Split(SubSeq(v, Index(v, sep) + 1, Len(v)), sep)
                  ELSE <<v>> : v \in {s}} : TRUE

RECURSIVE LessFrom(_, _, _)
\* a < b, given that a and b agree before position i
LessFrom(a, b, i) ==
    IF i > Len(b) THEN FALSE
    ELSE IF i > Len(a) THEN TRUE
    ELSE IF Char(a, i) # Char(b, i) THEN <<Char(a, i), Char(b, i)>> \in CharLess
    ELSE LessFrom(a, b, i + 1)

\* a < b on Go strings (bytewise)
Less(a, b) == LessFrom(a, b, 1)

RECURSIVE CamelFrom(_, _)
\* the words of s from byte i on (strings.FieldsFunc: the maximal runs of
\* letters and digits), each with its first byte upper-cased, joined; j is
\* the last byte of the word that begins at byte i
CamelFrom(s, i) ==
    IF i > Len(s) THEN ""
    ELSE IF ~IsLetterOrNumber(Char(s, i)) THEN CamelFrom(s, i + 1)
    ELSE With(CHOOSE j \in i..Len(s) :
                  /\ j < Len(s) => ~IsLetterOrNumber(Char(s, j + 1))
                  /\ \A k \in i..j : IsLetterOrNumber(Char(s, k)),
              LAMBDA j : ToUpper(Char(s, i)) \o SubSeq(s, i + 1, j) \o CamelFrom(s, j + 1))

ToCamelCase(s) == CamelFrom(s, 1)

Last(seq) == seq[Len(seq)]

(***************************************************************************)
(* Slices and maps                                                         *)
(***************************************************************************)
RECURSIVE Insert(_, _)
\* x put in front of the first element of the sorted sequence seq that is
\* not smaller
Insert(seq, x) ==
    IF seq = <<>> THEN <<x>>
    ELSE IF Less(seq[1], x) THEN <<seq[1]>> \o Insert(Tail(seq), x)
    ELSE <<x>> \o seq

RECURSIVE Sorted(_)
\* slices.Sorted on a sequence of strings
Sorted(seq) == IF seq = <<>> THEN <<>> ELSE Insert(Sorted(Tail(seq)), seq[1])

RECURSIVE SetToSeq(_)
\* the elements of a set of strings, smallest first
SetToSeq(S) ==
    IF S = {} THEN <<>>
    ELSE With(CHOOSE y \in S : \A z \in S : z = y \/ Less(y, z), LAMBDA x :
              <<x>> \o SetToSeq(S \ {x}))

RECURSIVE Factorial(_)
Factorial(n) == IF n <= 1 THEN 1 ELSE n * Factorial(n - 1)

RECURSIVE Permutation(_, _)
\* the permutation of seq with number n modulo Len(seq)!, the permutations
\* numbered from 0 in lexicographic order of the positions: the element at
\* position i comes first, then the others permuted
Permutation(seq, n) ==
    With(seq, LAMBDA s :
         IF s = <<>> THEN <<>>
         ELSE With(((n \div Factorial(Len(s) - 1)) % Len(s)) + 1, LAMBDA i :
                   <<s[i]>> \o Permutation(SubSeq(s, 1, i - 1) \o SubSeq(s, i + 1, Len(s)),
                                           n % Factorial(Len(s) - 1))))

\* maps.Keys(m): the keys of m in the order the runtime happens to iterate
\* them.  Go leaves that order unspecified, any permutation of the keys is an
\* outcome; order selects one.
MapKeys(m, order) == Permutation(SetToSeq(DOMAIN m), order)

\* slices.Sorted(maps.Keys(m)), without the sort: the mutant of SortedKeys
SortedKeys_unsorted(m, order) == MapKeys(m, order)

\* slices.Sorted(maps.Keys(m))
SortedKeys(m, order) == Sorted(MapKeys(m, order))

(***************************************************************************)
(* Schema documents (apiextensions/v1 JSONSchemaProps, the fields the      *)
(* parser reads).  ref: Ref, items: Items.Schema, props: Properties,       *)
(* addl: AdditionalProperties.Schema; enum holds the raw JSON of each      *)
(* literal, quotes included.                                               *)
(***************************************************************************)
Blank == [ref |-> <<>>, description |-> "", type |-> "", format |-> "",
          enum |-> <<>>, items |-> <<>>, props |-> <<>>, addl |-> <<>>,
          preserve |-> FALSE, tuple |-> <<>>]

Scalar(t, f) == [Blank EXCEPT !.type = t, !.format = f]
Object(ps) == [Blank EXCEPT !.type = "object", !.props = ps]
Array(item) == [Blank EXCEPT !.type = "array", !.items = <<item>>]
Enum(t, lits) == [Blank EXCEPT !.type = t, !.enum = lits]
Ref(r) == [Blank EXCEPT !.ref = <<r>>]
MapOf(item) == [Blank EXCEPT !.type = "object", !.addl = <<item>>]
Described(n, d) == [n EXCEPT !.description = d]
Preserve(n) == [n EXCEPT !.preserve = TRUE]
\* an array whose items are a list of schemas: Items.JSONSchemas is set and
\* Items.Schema is nil
Tuple(items) == [Blank EXCEPT !.type = "array", !.tuple = items]

Join(seq, sep) ==
    LET RECURSIVE J(_)
        J(i) == IF i > Len(seq) THEN ""
                ELSE (IF i > 1 THEN sep ELSE "") \o seq[i] \o J(i + 1)
    IN  J(1)

\* a byte as strconv.Quote and encoding/json write it inside a string literal;
\* html: encoding/json also escapes the characters <, > and &
EscapeChar(c, html) ==
    CASE c = "\"" -> "\\\""
      [] c = "\\" -> "\\\\"
      [] c = "\n" -> "\\n"
      [] c = "\r" -> "\\r"
      [] c = "\t" -> "\\t"
      [] html /\ c = "<" -> "\\u003c"
      [] html /\ c = ">" -> "\\u003e"
      [] html /\ c = "&" -> "\\u0026"
      [] OTHER -> c

\* fmt.Sprintf("%q", s)
Quote(s) == "\"" \o Join([i \in 1..Len(s) |-> EscapeChar(Char(s, i), FALSE)], "") \o "\""

\* json.Marshal of a string: a string without a byte that is escaped is
\* written as it is, between quotes
MarshalString(s) ==
    IF \A i \in 1..Len(s) : Char(s, i) \notin {"\"", "\\", "\n", "\r", "\t", "<", ">", "&"}
    THEN "\"" \o s \o "\""
    ELSE "\"" \o Join([i \in 1..Len(s) |-> EscapeChar(Char(s, i), TRUE)], "") \o "\""

RECURSIVE MarshalSchema(_, _)
\* json.Marshal of a map[string]JSONSchemaProps: null for a nil map, else an
\* object whose keys encoding/json sorts
MarshalProperties(ps, order) ==
    IF DOMAIN ps = {} THEN "null"
    ELSE With(Sorted(MapKeys(ps, order)), LAMBDA ks :
              "{" \o Join([i \in 1..Len(ks) |->
                     MarshalString(ks[i]) \o ":" \o MarshalSchema(ps[ks[i]], order)], ",") \o "}")

\* json.Marshal of a []JSON: the raw literals in the order they are listed
MarshalEnum(lits) == IF lits = <<>> THEN "null" ELSE "[" \o Join(lits, ",") \o "]"

\* json.Marshal of a JSONSchemaProps: the non-empty fields in declaration order
MarshalSchema(n, order) ==
    "{" \o Join(
          (IF n.ref # <<>> THEN <<"\"$ref\":" \o MarshalString(n.ref[1])>> ELSE <<>>)
       \o (IF n.description # "" THEN <<"\"description\":" \o MarshalString(n.description)>> ELSE <<>>)
       \o (IF n.type # "" THEN <<"\"type\":" \o MarshalString(n.type)>> ELSE <<>>)
       \o (IF n.format # "" THEN <<"\"format\":" \o MarshalString(n.format)>> ELSE <<>>)
       \o (IF n.enum # <<>> THEN <<"\"enum\":" \o MarshalEnum(n.enum)>> ELSE <<>>)
       \o (IF n.items # <<>> THEN <<"\"items\":" \o MarshalSchema(n.items[1], order)>> ELSE <<>>)
       \o (IF n.tuple # <<>>
           THEN <<"\"items\":[" \o Join([i \in 1..Len(n.tuple) |->
                                            MarshalSchema(n.tuple[i], order)], ",") \o "]">>
           ELSE <<>>)
       \o (IF DOMAIN n.props # {}
           THEN <<"\"properties\":" \o MarshalProperties(n.props, order)>> ELSE <<>>)
       \o (IF n.addl # <<>>
           THEN <<"\"additionalProperties\":" \o MarshalSchema(n.addl[1], order)>> ELSE <<>>)
       \o (IF n.preserve THEN <<"\"x-kubernetes-preserve-unknown-fields\":true">> ELSE <<>>),
          ",") \o "}"

\* hex.EncodeToString(md5.Sum(b)): the digest of b is written #b, so two
\* digests are equal exactly when their inputs are (MD5 taken as collision-free)
Md5Hex(b) == "#" \o b

\* getHash(prop.Properties), with the keys serialised in iteration order
\* instead of sorted: the mutant of getHashProperties
getHashProperties_unsorted(ps, order) ==
    Md5Hex(IF DOMAIN ps = {} THEN "null"
           ELSE With(MapKeys(ps, order), LAMBDA ks :
                     "{" \o Join([i \in 1..Len(ks) |->
                         MarshalString(ks[i]) \o ":" \o MarshalSchema(ps[ks[i]], order)], ",") \o "}"))

\* getHash(prop.Properties)
getHashProperties(ps, order) == Md5Hex(MarshalProperties(ps, order))

\* getHash(prop.Enum)
getHashEnum(lits) == Md5Hex(MarshalEnum(lits))

(***************************************************************************)
(* Type mapping                                                            *)
(***************************************************************************)
RECURSIVE mapType_formatOfType(_)
\* mapType with the formats float and double read on a number only and the
\* formats int32 and int64 on an integer only
mapType_formatOfType(prop) ==
    IF prop.type = ""
    THEN IF prop.ref # <<>> THEN ToCamelCase(Last(Split(prop.ref[1], "/"))) ELSE "any"
    ELSE CASE prop.type = "string" ->
                IF prop.format = "date-time" THEN "metav1.Time"
                ELSE IF prop.format \in {"byte", "binary"} THEN "[]byte"
                ELSE "string"
           [] prop.type = "integer" ->
                IF prop.format = "int32" THEN "int32" ELSE "int64"
           [] prop.type = "number" ->
                IF prop.format = "float" THEN "float32" ELSE "float64"
           [] prop.type = "boolean" -> "bool"
           [] prop.type = "array" ->
                IF prop.items # <<>> THEN "[]" \o mapType_formatOfType(prop.items[1])
                ELSE "[]any"
           [] prop.type = "object" -> "map[string]any"
           [] OTHER -> "any"

RECURSIVE mapType(_)
mapType(prop) ==
    IF prop.type = ""
    THEN IF prop.ref # <<>> THEN ToCamelCase(Last(Split(prop.ref[1], "/"))) ELSE "any"
    ELSE CASE prop.type = "string" ->
                IF prop.format = "date-time" THEN "metav1.Time"
                ELSE IF prop.format \in {"byte", "binary"} THEN "[]byte"
                ELSE "string"
           [] prop.type \in {"integer", "number"} ->
                IF prop.format = "int32" THEN "int32"
                ELSE IF prop.format = "int64" THEN "int64"
                ELSE IF prop.format = "float" THEN "float32"
                ELSE IF prop.format = "double" THEN "float64"
                ELSE IF prop.type = "integer" THEN "int64"
                ELSE "float64"
           [] prop.type = "boolean" -> "bool"
           [] prop.type = "array" ->
                IF prop.items # <<>> THEN "[]" \o mapType(prop.items[1]) ELSE "[]any"
           [] prop.type = "object" -> "map[string]any"
           [] OTHER -> "any"

\* the constants of an enum type
generateEnum(prop, fieldName) ==
    [i \in 1..Len(prop.enum) |->
        [Name |-> fieldName \o ToCamelCase(ReplaceAll(prop.enum[i], "\"", "")),
         Value |-> prop.enum[i]]]

(***************************************************************************)
(* Naming registry.  newUniqFieldName returns the name and the reserved    *)
(* set r.structNames as the call leaves it.                                *)
(***************************************************************************)
RECURSIVE pathNames_appended(_, _, _, _, _)
\* the loop over the path segments with each segment put behind the prefix
\* instead of in front of it
pathNames_appended(structNames, paths, i, prefix, fieldName) ==
    IF i < 1
    THEN [name |-> fieldName \o "_" \o Md5Hex(Join(paths, ".") \o "." \o fieldName),
          structNames |-> structNames]
    ELSE With(prefix \o ToCamelCase(paths[i]), LAMBDA p :
              IF (p \o fieldName) \notin structNames
              THEN [name |-> p \o fieldName, structNames |-> structNames \cup {p \o fieldName}]
              ELSE pathNames_appended(structNames, paths, i - 1, p, fieldName))

RECURSIVE pathNames(_, _, _, _, _)
\* the loop over the path segments, innermost first (lines 219-226); when
\* every candidate is reserved, the hash-suffixed name, which is not reserved
pathNames(structNames, paths, i, prefix, fieldName) ==
    IF i < 1
    THEN [name |-> fieldName \o "_" \o Md5Hex(Join(paths, ".") \o "." \o fieldName),
          structNames |-> structNames]
    ELSE With(ToCamelCase(paths[i]) \o prefix, LAMBDA p :
              IF (p \o fieldName) \notin structNames
              THEN [name |-> p \o fieldName, structNames |-> structNames \cup {p \o fieldName}]
              ELSE pathNames(structNames, paths, i - 1, p, fieldName))

\* newUniqFieldName without the root exception: the bare name also for a
\* property of the resource root
newUniqFieldName_bareRoot(structNames, kind, fieldName, root, path) ==
    IF fieldName \notin structNames
    THEN [name |-> fieldName, structNames |-> structNames \cup {fieldName}]
    ELSE IF (kind \o fieldName) \notin structNames
    THEN [name |-> kind \o fieldName, structNames |-> structNames \cup {kind \o fieldName}]
    ELSE With(Split(path, "."), LAMBDA paths :
              pathNames(structNames, paths, Len(paths), "", fieldName))

\* newUniqFieldName without the look-up of the bare name: a non-root field
\* takes it whether it is reserved or not
newUniqFieldName_bareReserved(structNames, kind, fieldName, root, path) ==
    IF ~root
    THEN [name |-> fieldName, structNames |-> structNames \cup {fieldName}]
    ELSE IF (kind \o fieldName) \notin structNames
    THEN [name |-> kind \o fieldName, structNames |-> structNames \cup {kind \o fieldName}]
    ELSE With(Split(path, "."), LAMBDA paths :
              pathNames(structNames, paths, Len(paths), "", fieldName))

newUniqFieldName(structNames, kind, fieldName, root, path) ==
    IF ~root /\ fieldName \notin structNames
    THEN [name |-> fieldName, structNames |-> structNames \cup {fieldName}]
    ELSE IF (kind \o fieldName) \notin structNames
    THEN [name |-> kind \o fieldName, structNames |-> structNames \cup {kind \o fieldName}]
    ELSE With(Split(path, "."), LAMBDA paths :
              pathNames(structNames, paths, Len(paths), "", fieldName))

(***************************************************************************)
(* Struct synthesis.  env is the state the recursion works on:             *)
(*   structHashes, structNames  the registry of r *CustomResources         *)
(*   cr                         the *CustomResource being compiled         *)
(* Every operator returns env as the call leaves it.  A StructDef is a     *)
(* record; FieldDef.SkipDeepEqual and FieldDef.NoPointer are never set by  *)
(* the parser and are left out.                                            *)
(***************************************************************************)
NewField(fieldName, propName, prop) ==
    [Name |-> fieldName, Type |-> "", JSONTag |-> propName, Description |-> prop.description,
     Enums |-> <<>>, EnumName |-> "", EnumType |-> ""]

\* generateEnumStruct; field is the FieldDef the caller passes by pointer
generateEnumStruct(env, prop, fieldName, field, path) ==
    With(getHashEnum(prop.enum), LAMBDA hash :
      IF hash \in DOMAIN env.structHashes
      THEN [env |-> env, fieldType |-> env.structHashes[hash], field |-> field]
      ELSE With(newUniqFieldName(env.structNames, env.cr.Kind, fieldName, FALSE, path),
                LAMBDA u :
             [env |-> [env EXCEPT !.structNames = u.structNames,
                                  !.structHashes = (hash :> u.name) @@ @],
              fieldType |-> u.name,
              field |-> [field EXCEPT !.Enums = generateEnum(prop, u.name),
                                      !.EnumType = mapType(prop),
                                      !.EnumName = u.name]]))

RECURSIVE generateStructs(_, _, _, _, _, _)
RECURSIVE generateStructProperty(_, _, _, _, _, _, _)
RECURSIVE propertyType(_, _, _, _, _, _, _)
RECURSIVE generateField(_, _, _, _, _, _)
RECURSIVE generateFields(_, _, _, _, _, _, _, _)

\* lines 243-246 of generateStructProperty: the new struct, named u.name
newStruct(env, prop, u, hash, path, propName, order) ==
    [env |-> generateStructs(prop,
                 [env EXCEPT !.structNames = u.structNames,
                             !.structHashes = (hash :> u.name) @@ @],
                 u.name, path \o "." \o propName, FALSE, order),
     fieldType |-> u.name]

\* generateStructProperty without the lookup in r.structHashes: a struct for
\* every occurrence
generateStructProperty_noMemo(env, prop, fieldName, path, propName, root, order) ==
    newStruct(env, prop, newUniqFieldName(env.structNames, env.cr.Kind, fieldName, root, path),
              getHashProperties(prop.props, order), path, propName, order)

generateStructProperty(env, prop, fieldName, path, propName, root, order) ==
    With(getHashProperties(prop.props, order), LAMBDA hash :
      IF hash \in DOMAIN env.structHashes
      THEN [env |-> env, fieldType |-> env.structHashes[hash]]
      ELSE newStruct(env, prop,
                     newUniqFieldName(env.structNames, env.cr.Kind, fieldName, root, path),
                     hash, path, propName, order))

\* "[]" in front of the field type of g
sliceOf(g) == [g EXCEPT !.fieldType = "[]" \o @]

\* lines 130-162 of the loop body: the field type, before enums are looked at
propertyType(env, prop, fieldName, path, propName, root, order) ==
    IF prop.type # ""
    THEN CASE prop.type = "object" ->
                IF DOMAIN prop.props # {}
                THEN generateStructProperty(env, prop, fieldName, path, propName, root, order)
                ELSE IF prop.addl # <<>>
                THEN [env |-> env, fieldType |-> "map[string]" \o mapType(prop.addl[1])]
                ELSE [env |-> env, fieldType |-> "map[string]any"]
           [] prop.type = "array" ->
                IF prop.items # <<>> /\ prop.items[1].type = "object"
                THEN sliceOf(generateStructProperty(env, prop.items[1], fieldName, path,
                                                    propName, root, order))
                ELSE [env |-> env, fieldType |-> mapType(prop)]
           [] OTHER -> [env |-> env, fieldType |-> mapType(prop)]
    ELSE IF prop.ref # <<>>
    THEN [env |-> env, fieldType |-> ToCamelCase(Last(Split(prop.ref[1], "/")))]
    ELSE [env |-> [env EXCEPT !.cr.Imports = @ \cup
                     {"apiextensionsv1 \"k8s.io/apiextensions-apiserver/pkg/apis/apiextensions/v1\""}],
          fieldType |-> "*apiextensionsv1.JSON"]

\* lines 170-176 of the loop body: the FieldDef, its type taken from the
\* result e of generateEnumStruct, with "[]" in front for the enum of an item
enumField(e, slice) ==
    [env |-> e.env,
     field |-> [e.field EXCEPT !.Type = (IF slice THEN "[]" ELSE "") \o e.fieldType]]

\* lines 164-176 of the loop body, t the result of propertyType; line 170
\* reads prop.Items.Schema.Enum whenever prop.Items is set, and panics with a
\* nil pointer dereference when the items are a list of schemas
fieldOf(t, prop, fieldName, propName, path) ==
    IF prop.tuple # <<>>
    THEN [env |-> [t.env EXCEPT !.panic = TRUE],
          field |-> [NewField(fieldName, propName, prop) EXCEPT !.Type = t.fieldType]]
    ELSE IF prop.items # <<>> /\ Len(prop.items[1].enum) > 0
    THEN enumField(generateEnumStruct(t.env, prop.items[1], fieldName,
                                      NewField(fieldName, propName, prop), path), TRUE)
    ELSE IF Len(prop.enum) > 0
    THEN enumField(generateEnumStruct(t.env, prop, fieldName,
                                      NewField(fieldName, propName, prop), path), FALSE)
    ELSE [env |-> t.env, field |-> [NewField(fieldName, propName, prop) EXCEPT !.Type = t.fieldType]]

\* one iteration of the loop of generateStructs (lines 128-178): env as the
\* iteration leaves it and the FieldDef it appends
generateField(env, prop, propName, path, root, order) ==
    With(ToCamelCase(propName), LAMBDA fieldName :
         fieldOf(propertyType(env, prop, fieldName, path, propName, root, order),
                 prop, fieldName, propName, path))

\* the loop of generateStructs from the i-th key on: env as the loop leaves
\* it and the fields appended
generateFields(schema, env, keys, i, path, root, order, fields) ==
    IF i > Len(keys) THEN [env |-> env, fields |-> fields]
    ELSE With(generateField(env, schema.props[keys[i]], keys[i], path, root, order),
              LAMBDA f :
                generateFields(schema, f.env, keys, i + 1, path, root, order,
                               Append(fields, f.field)))

\* lines 116-125 of generateStructs: the StructDef, set as cr.Root or put in
\* cr.Structs
register(env, structDef) ==
    IF structDef.Root THEN [env EXCEPT !.cr.Root = structDef]
    ELSE [env EXCEPT !.cr.Structs = (structDef.Name :> structDef) @@ @]

\* the fields the loop appended, seen through cr
filled(g, name, root) ==
    IF root THEN [g.env EXCEPT !.cr.Root.Fields = g.fields]
    ELSE [g.env EXCEPT !.cr.Structs[name].Fields = g.fields]

\* generateStructs: the struct is registered before its properties are
\* visited and filled while they are; no struct generated inside the loop
\* can take the same name in the same resource, so writing the fields after
\* the loop leaves cr.Structs as the code does
generateStructs(schema, env, name, path, root, order) ==
    filled(generateFields(schema,
               register(env, [Root |-> root, Name |-> name,
                              Description |-> name \o " represents a " \o path,
                              Fields |-> <<>>]),
               SortedKeys(schema.props, order), 1, path, root, order, <<>>),
           name, root)

(***************************************************************************)
(* Version selection and the compilation of one CRD                        *)
(***************************************************************************)
RECURSIVE versionFrom(_, _, _)
\* the loop of extractSchemas from the i-th version on; line 276 reads
\* v.Schema.OpenAPIV3Schema and panics with a nil pointer dereference when the
\* version carries no schema
versionFrom(versions, desiredVersion, i) ==
    IF i > Len(versions)
    THEN [err |-> "could not find desired version " \o Quote(desiredVersion) \o " in CRD",
          schema |-> <<>>, version |-> "", panic |-> FALSE]
    ELSE IF versions[i].Storage /\ (desiredVersion = "" \/ desiredVersion = versions[i].Name)
    THEN [err |-> "", schema |-> versions[i].Schema, version |-> versions[i].Name,
          panic |-> versions[i].Schema = <<>>]
    ELSE versionFrom(versions, desiredVersion, i + 1)

\* extractSchemas that takes the desired version whether or not it is the
\* storage version
extractSchemas_anyServed(crd, desiredVersion) ==
    LET RECURSIVE from(_)
        from(i) ==
            IF i > Len(crd.Versions)
            THEN [err |-> "could not find desired version " \o Quote(desiredVersion)
                              \o " in CRD",
                  schema |-> <<>>, version |-> "", panic |-> FALSE]
            ELSE IF (desiredVersion = "" /\ crd.Versions[i].Storage)
                     \/ desiredVersion = crd.Versions[i].Name
            THEN [err |-> "", schema |-> crd.Versions[i].Schema,
                  version |-> crd.Versions[i].Name,
                  panic |-> crd.Versions[i].Schema = <<>>]
            ELSE from(i + 1)
    IN  from(1)

extractSchemas(crd, desiredVersion) == versionFrom(crd.Versions, desiredVersion, 1)

\* parseSingleCRD on the bytes of file: the error, or the CustomResource and
\* the registry as the compilation leaves it; panic when the call does not
\* return because of a nil pointer dereference
parseSingleCRD(r, file, desiredVersion, order) ==
    IF ~file.yaml
    THEN [err |-> "error unmarshaling JSON", cr |-> <<>>, r |-> r, panic |-> FALSE]
    ELSE LET x == extractSchemas(file.crd, desiredVersion)
         IN  IF x.err # "" \/ x.panic
             THEN [err |-> x.err, cr |-> <<>>, r |-> r, panic |-> x.panic]
             ELSE LET cr == [Kind |-> file.crd.Kind, Plural |-> file.crd.Plural,
                             List |-> file.crd.ListKind, group |-> file.crd.Group,
                             version |-> x.version, Root |-> <<>>, Structs |-> <<>>,
                             Imports |-> {"metav1 \"k8s.io/apimachinery/pkg/apis/meta/v1\""}]
                  IN  With(generateStructs(x.schema[1],
                                [structHashes |-> r.structHashes,
                                 structNames |-> r.structNames, cr |-> cr,
                                 panic |-> FALSE],
                                cr.Kind, cr.Kind, TRUE, order), LAMBDA env :
                           [err |-> "", cr |-> <<env.cr>>,
                            r |-> [r EXCEPT !.structHashes = env.structHashes,
                                            !.structNames = env.structNames],
                            panic |-> env.panic])

(***************************************************************************)
(* Pointer conversion and rendering                                        *)
(***************************************************************************)
\* the pointer form with the marker always in front
pointerType_front(t) == "*" \o t

\* lines 70-75 of Parse: the type of a field after the pointer conversion
pointerType(t) == IF Contains(t, "]") THEN ReplaceFirst(t, "]", "]*") ELSE "*" \o t

\* lines 67-78 of Parse: every field of every struct of item.Structs
pointerItem(item) ==
    [item EXCEPT !.Structs =
        [s \in DOMAIN item.Structs |->
            [item.Structs[s] EXCEPT !.Fields =
                [f \in 1..Len(item.Structs[s].Fields) |->
                    [item.Structs[s].Fields[f] EXCEPT !.Type = pointerType(@)]]]]]

prepareDescription(desc, field) ==
    ReplaceAll(desc, "\n", "\n" \o (IF field THEN "\t// " ELSE "// "))

RECURSIVE insertField(_, _)
\* f put behind the fields of the sorted sequence whose Name is not larger
insertField(fields, f) ==
    IF fields = <<>> THEN <<f>>
    ELSE IF Less(f.Name, fields[1].Name) THEN <<f>> \o fields
    ELSE <<fields[1]>> \o insertField(Tail(fields), f)

RECURSIVE sortFields(_, _)
\* sort.Slice by Name (an insertion sort for the short slices of the model)
sortFields(fields, n) ==
    IF n = 0 THEN <<>> ELSE insertField(sortFields(fields, n - 1), fields[n])

prepare(structDef) ==
    With(sortFields(structDef.Fields, Len(structDef.Fields)), LAMBDA sorted :
         [structDef EXCEPT
            !.Description = prepareDescription(@, FALSE),
            !.Fields = [i \in 1..Len(sorted) |->
                           [sorted[i] EXCEPT !.Description = prepareDescription(@, TRUE)]]])

\* the root filter that also lets metadata through
keepRootField_metadata(field) == field.JSONTag \in {"spec", "status", "metadata"}

\* line 141 of generateTypesCode
keepRootField(field) == field.JSONTag = "spec" \/ field.JSONTag = "status"

\* generateTypesCode: cr as the call leaves it (it works on the StructDefs in
\* place) and the data handed to the template
generateTypesCode(cr, group, ver, order) ==
    With(SortedKeys(cr.Structs, order), LAMBDA sortedStructNames :
    With([prepare(cr.Root) EXCEPT !.Fields = SelectSeq(@, keepRootField)], LAMBDA root :
    With([n \in DOMAIN cr.Structs |-> prepare(cr.Structs[n])], LAMBDA structs :
        [cr |-> [cr EXCEPT !.Root = root, !.Structs = structs],
         data |-> [Version |-> ver, Group |-> group, Kind |-> cr.Kind, List |-> cr.List,
                   Plural |-> ToCamelCase(cr.Plural), Root |-> root,
                   Structs |-> [k \in 1..Len(sortedStructNames) |->
                                   structs[sortedStructNames[k]]],
                   Imports |-> Sorted(SetToSeq(cr.Imports))]])))

\* strings.ToLower
ToLower(s) ==
    LET RECURSIVE L(_)
        L(i) == IF i > Len(s) THEN ""
                ELSE (IF \E p \in Cases : p[2] = Char(s, i)
                      THEN (CHOOSE p \in Cases : p[2] = Char(s, i))[1]
                      ELSE Char(s, i)) \o L(i + 1)
    IN  L(1)

(***************************************************************************)
(* The CRD files the command is run on                                     *)
(***************************************************************************)
String == Scalar("string", "")

\* the conventional status condition record
Condition ==
    Object(("type" :> String)
        @@ ("status" :> Enum("string", <<"\"True\"", "\"False\"", "\"Unknown\"">>))
        @@ ("reason" :> String)
        @@ ("message" :> String)
        @@ ("lastTransitionTime" :> Scalar("string", "date-time")))

Limits == Object("cpu" :> String)

Phase == Enum("string", <<"\"Ready\"", "\"Failed\"">>)

\* an enum with the wildcard and the empty string among its literals
Verbs == Enum("string", <<"\"*\"", "\"\"", "\"get\"">>)

\* pool and ref are declared by Gadget as well, with other properties
WidgetSchema ==
    Object(("apiVersion" :> String)
        @@ ("kind" :> String)
        @@ ("metadata" :> Object(<<>>))
        @@ ("spec" :> Object(("replicas" :> Scalar("integer", "int32"))
                          @@ ("widget" :>
                                 Object("a" :> Described(String, "the \"a\" side\nof a <widget>")))
                          @@ ("limits" :> Limits)
                          @@ ("pool" :> Object("size" :> Scalar("integer", "")))
                          @@ ("ref" :> Object("r" :> String))
                          @@ ("tags" :> Array(String))
                          @@ ("labels" :> MapOf(String))
                          @@ ("config" :> Preserve(Object(<<>>)))
                          @@ ("raw" :> Blank)))
        @@ ("status" :> Object(("conditionsA" :> Array(Condition))
                            @@ ("conditionsB" :> Array(Condition))
                            @@ ("limits" :> Limits)
                            @@ ("phase" :> Phase))))

\* pool has the properties of limits under another key; quota has them too
\* and lists its one allowed value; ref is declared twice, with different
\* properties
GadgetSchema ==
    Object(("apiVersion" :> String)
        @@ ("data" :> Object("blob" :> Scalar("string", "byte")))
        @@ ("spec" :> Object(("limits" :> Limits)
                          @@ ("widget" :> Object("b" :> Scalar("integer", "")))
                          @@ ("hooks" :> Array(Object(<<>>)))
                          @@ ("opts" :> Object(<<>>))
                          @@ ("pool" :> Array(Limits))
                          @@ ("quota" :> [Limits EXCEPT !.enum = <<"{\"cpu\":\"1\"}">>])
                          @@ ("ref" :> Object("p" :> String))
                          @@ ("verbs" :> Array(Verbs))))
        @@ ("status" :> Object(("phase" :> Phase)
                            @@ ("ref" :> Object("q" :> String))
                            @@ ("history" :> Array(Phase))
                            @@ ("last" :> Enum("string", <<"\"Failed\"", "\"Ready\"">>)))))

\* an enum declared on a top-level property and again below spec
Mode == Enum("string", <<"\"on\"", "\"off\"">>)

\* target has the properties of spec.allow.name; the nested policyZone takes
\* the name the root property zone would get
PolicySchema ==
    Object(("mode" :> Mode)
        @@ ("spec" :> Object(("allow" :> Object("name" :> Object("x" :> String)))
                          @@ ("deny" :> Object("name" :> Object("y" :> String)))
                          @@ ("mode" :> Mode)
                          @@ ("policyZone" :> Object("z" :> String))
                          @@ ("dry-run" :> Scalar("boolean", ""))
                          @@ ("dryRun" :> Scalar("boolean", ""))))
        @@ ("status" :> Scalar("string", ""))
        @@ ("target" :> Object("x" :> String))
        @@ ("zone" :> Object("w" :> String)))

MatrixSchema ==
    Object(("spec" :> Object(("rows" :> Tuple(<<String, Scalar("integer", "")>>))
                          @@ ("size" :> Scalar("integer", "")))))

Version(name, storage, schema) == [Name |-> name, Storage |-> storage, Schema |-> <<schema>>]

CRD(kind, plural, group, versions) ==
    [Kind |-> kind, Plural |-> plural, ListKind |-> kind \o "List", Group |-> group,
     Versions |-> versions]

\* readable: os.ReadFile succeeds; yaml: yaml.Unmarshal succeeds
File(readable, yaml, crd) == [readable |-> readable, yaml |-> yaml, crd |-> crd]

FileTable ==
    << File(TRUE, TRUE, CRD("Widget", "widgets", "example.io",
                            <<Version("v1", TRUE, WidgetSchema)>>)),
       File(TRUE, TRUE, CRD("Gadget", "gadgets", "example.io",
                            <<Version("v1", FALSE, GadgetSchema),
                              Version("v2", TRUE, GadgetSchema)>>)),
       File(TRUE, TRUE, CRD("Gadget", "gadgets", "example.io",
                            <<Version("v1", TRUE, GadgetSchema)>>)),
       File(TRUE, TRUE, CRD("Policy", "policies", "other.io",
                            <<Version("v1", TRUE, PolicySchema)>>)),
       \* a YAML document that is no CRD: it unmarshals to a CRD without versions
       File(TRUE, TRUE, CRD("", "", "", <<>>)),
       File(TRUE, FALSE, CRD("", "", "", <<>>)),
       File(FALSE, FALSE, CRD("", "", "", <<>>)),
       \* a CRD whose storage version carries no schema
       File(TRUE, TRUE, CRD("Probe", "probes", "example.io",
                            <<[Name |-> "v1", Storage |-> TRUE, Schema |-> <<>>]>>)),
       \* a CRD with an array property whose items are a list of schemas
       File(TRUE, TRUE, CRD("Matrix", "matrices", "example.io",
                            <<Version("v1", TRUE, MatrixSchema)>>)) >>

Files == DOMAIN FileTable

Versions == {"", "v1", "v2"}

RECURSIVE Batches(_)
\* the sequences of at most n files
Batches(n) ==
    IF n = 0 THEN {<<>>}
    ELSE LET B == Batches(n - 1)
         IN  B \cup {Append(b, f) : b \in B, f \in Files}

(***************************************************************************)
(* State                                                                   *)
(***************************************************************************)
VARIABLES
    crds,         \* --crd: the files of the batch, in submission order
    version,      \* --version
    pointers,     \* --pointer
    iterOrder,    \* the map iteration order of this run
    pc,           \* "run", "parse" (loop of Parse), "render" (loop of WriteCrdFiles), "done",
                  \* "panic" (the process died of a run-time panic)
    crdIdx,       \* loop index of Parse, later of WriteCrdFiles
    res,          \* the *CustomResources Parse builds
    crdKind,      \* Parse's local crdKind
    success,      \* Parse's second result
    logs,         \* the slog.Error records
    err,          \* the error run returns, "" for nil
    files,        \* the outFiles collected by WriteCrdFiles
    written,      \* the files on disk
    parsed,       \* history: what Parse returned, <<>> before it returns and on failure
    runs,         \* number of the current run of the command
    prev,         \* outcome of the previous run, <<>> on the first
    naming,       \* a registry newUniqFieldName is called on directly, and its calls
    mapping,      \* a schema node mapType is called on directly, and its result
    ex,           \* flatten-crd-api: the Extractor
    job           \* flatten-crd-api: the position in main and what has been done

vars == <<crds, version, pointers, iterOrder, pc, crdIdx, res, crdKind, success, logs,
          err, files, written, parsed, runs, prev, naming, mapping, ex, job>>

\* lines 20-24 of Parse
NewResources(v) ==
    [Items |-> <<>>, Names |-> <<>>, Group |-> "", Version |-> v,
     structHashes |-> <<>>, structNames |-> {}]

Fresh ==
    /\ pc = "run"
    /\ crdIdx = 0
    /\ res = NewResources("")
    /\ crdKind = ""
    /\ success = FALSE
    /\ logs = <<>>
    /\ err = ""
    /\ files = <<>>
    /\ written = <<>>
    /\ parsed = <<>>

\* a registry without reserved names, as the test of newUniqFieldName makes
\* it: structNames the reserved names, returned the names the earlier calls
\* returned, last the latest call, n the number of calls
NoCalls == [structNames |-> {}, returned |-> {}, last |-> <<>>, n |-> 0]

\* no call of mapType
NoMapping == [type |-> "", format |-> "", out |-> <<>>]

\* flatten-crd-api is not run
NoExtractor == <<>>

NoJob == [at |-> "none"]

Init ==
    /\ naming = NoCalls
    /\ mapping = NoMapping
    /\ ex = NoExtractor
    /\ job = NoJob
    /\ crds \in Batches(MaxBatch)
    /\ version \in Versions
    /\ pointers \in BOOLEAN
    /\ iterOrder \in 0..MaxOrder
    /\ runs = 1
    /\ prev = <<>>
    /\ Fresh

LogRecord(msg, attrs) == [msg |-> msg, attrs |-> attrs]

\* Parse returns nil, false and run returns its error
Fail(record) ==
    /\ logs' = Append(logs, record)
    /\ success' = FALSE
    /\ err' = "failed to parse CRDs"
    /\ pc' = "done"
    /\ UNCHANGED <<crdIdx, res, crdKind>>

\* line 42 of Parse: the resource's group differs from the batch's
groupMismatch_second(idx, r, cr) == idx > 2 /\ r.Group # cr.group

groupMismatch(idx, r, cr) == idx > 1 /\ r.Group # cr.group

\* lines 43-47 of Parse: the record of the group mismatch
groupError(r, kind, cr) ==
    LogRecord("Not all CRD have the same group",
              ("group-a" :> r.Group) @@ ("kind-a" :> kind)
           @@ ("group-b" :> cr.group) @@ ("kind-b" :> cr.Kind))

\* lines 52-56 of Parse: the record of the version mismatch
versionError(r, v, kind, cr) ==
    LogRecord("Not all CRD have the same version",
              ("group-a" :> r.Group) @@ ("version-a" :> v) @@ ("kind-a" :> kind)
           @@ ("group-b" :> cr.group) @@ ("version-b" :> cr.version)
           @@ ("kind-b" :> cr.Kind))

\* run up to the first iteration of Parse
Run ==
    /\ pc = "run"
    /\ IF Len(crds) = 0
       THEN /\ err' = "at least one CRD must be defined"
            /\ pc' = "done"
            /\ UNCHANGED <<crdIdx, res>>
       ELSE /\ res' = NewResources(version)
            /\ crdIdx' = 1
            /\ pc' = "parse"
            /\ UNCHANGED err
    /\ UNCHANGED <<ex, job, naming, mapping, crds, version, pointers, iterOrder, crdKind, success, logs, files,
                   written, parsed, runs, prev>>

\* one iteration of the loop of Parse (lines 27-63)
ParseCRD ==
    /\ pc = "parse"
    /\ crdIdx <= Len(crds)
    /\ \E p \in {parseSingleCRD(res, FileTable[crds[crdIdx]], res.Version, iterOrder)} :
         IF ~FileTable[crds[crdIdx]].readable
         THEN Fail(LogRecord("Error reading file", "error" :> "no such file or directory"))
         ELSE IF p.panic
         THEN /\ pc' = "panic"
              /\ UNCHANGED <<crdIdx, res, crdKind, success, logs, err>>
         ELSE IF p.err # ""
         THEN Fail(LogRecord("Error parsing crd", "error" :> p.err))
         ELSE \E cr \in {p.cr[1]} :
           IF groupMismatch(crdIdx, res, cr)
           THEN Fail(groupError(res, crdKind, cr))
           ELSE IF version # "" /\ version # cr.version
           THEN Fail(versionError(res, version, crdKind, cr))
           ELSE /\ res' = [p.r EXCEPT
                              !.Names = Append(@, [Kind |-> cr.Kind, List |-> cr.List]),
                              !.Version = cr.version,
                              !.Group = cr.group,
                              !.Items = Append(@, cr)]
                /\ crdKind' = cr.Kind
                /\ crdIdx' = crdIdx + 1
                /\ UNCHANGED <<pc, success, logs, err>>
    /\ UNCHANGED <<ex, job, naming, mapping, crds, version, pointers, iterOrder, files, written, parsed, runs, prev>>

\* the end of Parse (lines 65-81): the pointer conversion and the return
PointerVars ==
    /\ pc = "parse"
    /\ crdIdx > Len(crds)
    /\ res' = IF pointers
              THEN [res EXCEPT !.Items = [k \in 1..Len(res.Items) |-> pointerItem(res.Items[k])]]
              ELSE res
    /\ parsed' = <<res'>>
    /\ success' = TRUE
    /\ pc' = "render"
    /\ crdIdx' = 1
    /\ UNCHANGED <<ex, job, naming, mapping, crds, version, pointers, iterOrder, crdKind, logs, err, files, written,
                   runs, prev>>

OutFile(name, content) == [name |-> name, content |-> content]

\* one iteration of the loop of WriteCrdFiles
RenderCRD ==
    /\ pc = "render"
    /\ crdIdx <= Len(res.Items)
    /\ \E g \in {generateTypesCode(res.Items[crdIdx], res.Group, res.Version, iterOrder)} :
           /\ res' = [res EXCEPT !.Items[crdIdx] = g.cr]
           /\ files' = Append(files,
                 OutFile(res.Version \o "/types_" \o ToLower(res.Items[crdIdx].Kind) \o ".go",
                         g.data))
    /\ crdIdx' = crdIdx + 1
    /\ UNCHANGED <<ex, job, naming, mapping, crds, version, pointers, iterOrder, pc, crdKind, success, logs, err,
                   written, parsed, runs, prev>>

\* generateGroupVersionInfoCode: the data handed to the template
generateGroupVersionInfoCode(r) ==
    [Version |-> r.Version, Group |-> r.Group, CRDNames |-> r.Names]

\* the end of WriteCrdFiles: the group version info and writeFiles, which
\* writes the files one by one and stops at the first os.MkdirAll or
\* os.WriteFile that fails; the file system decides whether one does, and
\* the text of its error is not modelled
WriteFiles ==
    /\ pc = "render"
    /\ crdIdx > Len(res.Items)
    /\ files' = Append(files, OutFile(res.Version \o "/group_version_info.go",
                                      generateGroupVersionInfoCode(res)))
    /\ \E n \in 0..Len(files'), fault \in {"none", "dir", "file"} :
          /\ fault = "none" <=> n = Len(files')
          /\ written' = SubSeq(files', 1, n)
          /\ err' = CASE fault = "none" -> ""
                       [] fault = "dir" -> "error creating directory"
                       [] fault = "file" -> "error writing output file"
    /\ pc' = "done"
    /\ UNCHANGED <<ex, job, naming, mapping, crds, version, pointers, iterOrder, crdIdx, res, crdKind, success, logs,
                   parsed, runs, prev>>

\* what Parse of a run leaves behind
Outcome == [success |-> success, logs |-> logs, res |-> res, parsed |-> parsed]

\* the command is run again on the same input, in a new process that
\* iterates its maps in another order than the run before (a run in the same
\* order repeats that run step by step)
Rerun ==
    /\ pc \in {"done", "panic"}
    /\ runs < MaxRuns
    /\ runs' = runs + 1
    /\ iterOrder' \in (0..MaxOrder) \ {iterOrder}
    /\ prev' = <<Outcome>>
    /\ pc' = "run"
    /\ crdIdx' = 0
    /\ res' = NewResources("")
    /\ crdKind' = ""
    /\ success' = FALSE
    /\ logs' = <<>>
    /\ err' = ""
    /\ files' = <<>>
    /\ written' = <<>>
    /\ parsed' = <<>>
    /\ UNCHANGED <<ex, job, naming, mapping, crds, version, pointers>>

\* one run of the command
Next == Run \/ ParseCRD \/ PointerVars \/ RenderCRD \/ WriteFiles

Spec == Init /\ [][Next]_vars

\* the command run up to MaxRuns times on the same input
NextRuns == Run \/ ParseCRD \/ PointerVars \/ RenderCRD \/ WriteFiles \/ Rerun

SpecRuns == Init /\ [][NextRuns]_vars

(***************************************************************************)
(* newUniqFieldName called on a registry of its own, as its unit test      *)
(* calls it: any sequence of at most MaxCalls calls                        *)
(***************************************************************************)
NameKinds == {"TestCase"}

NameFields == {"Foo", "Spec"}

NamePaths == {"TestCase", "TestCase.Status.Bar"}

\* the command is not run
NotRun ==
    /\ crds = <<>>
    /\ version = ""
    /\ pointers = FALSE
    /\ iterOrder = 0
    /\ runs = 1
    /\ prev = <<>>
    /\ Fresh

InitNames ==
    /\ naming = NoCalls
    /\ mapping = NoMapping
    /\ ex = NoExtractor
    /\ job = NoJob
    /\ NotRun

\* one call r.newUniqFieldName(cr, fieldName, root, path)
NameCall ==
    /\ naming.n < MaxCalls
    /\ \E kind \in NameKinds, fieldName \in NameFields, root \in BOOLEAN, path \in NamePaths :
         \E u \in {newUniqFieldName(naming.structNames, kind, fieldName, root, path)} :
            naming' = [structNames |-> u.structNames,
                       returned |-> naming.returned \cup
                                      {naming.last[c].name : c \in DOMAIN naming.last},
                       last |-> <<[kind |-> kind, fieldName |-> fieldName, root |-> root,
                                   path |-> path, before |-> naming.structNames,
                                   name |-> u.name]>>,
                       n |-> naming.n + 1]
    /\ UNCHANGED <<ex, job, mapping, crds, version, pointers, iterOrder, pc, crdIdx, res, crdKind,
                   success, logs, err, files, written, parsed, runs, prev>>

NextNames == NameCall

SpecNames == InitNames /\ [][NextNames]_vars

(***************************************************************************)
(* mapType called on a schema node of any type and format                  *)
(***************************************************************************)
MapTypes == {"", "string", "integer", "number", "boolean", "array", "object", "null", "int"}

MapFormats == {"", "date-time", "byte", "binary", "int32", "int64", "float", "double",
               "email"}

InitTypes ==
    /\ naming = NoCalls
    /\ ex = NoExtractor
    /\ job = NoJob
    /\ mapping \in {[type |-> t, format |-> f, out |-> <<>>] : t \in MapTypes, f \in MapFormats}
    /\ NotRun

\* one call mapType(prop)
MapTypeCall ==
    /\ mapping.out = <<>>
    /\ mapping' = [mapping EXCEPT !.out = <<mapType(Scalar(mapping.type, mapping.format))>>]
    /\ UNCHANGED <<ex, job, naming, crds, version, pointers, iterOrder, pc, crdIdx, res, crdKind,
                   success, logs, err, files, written, parsed, runs, prev>>

NextTypes == MapTypeCall

SpecTypes == InitTypes /\ [][NextTypes]_vars

(***************************************************************************)
(* flatten-crd-api: syntax trees and packages                              *)
(***************************************************************************)
\* go/ast type expressions; the X of a SelectorExpr is the name of its Ident
Ident(name) == [node |-> "Ident", Name |-> name]

SelectorExpr(x, sel) == [node |-> "SelectorExpr", X |-> x, Sel |-> sel]

StarExpr(x) == [node |-> "StarExpr", X |-> x]

ArrayType(elt) == [node |-> "ArrayType", Elt |-> elt]

MapType(key, value) == [node |-> "MapType", Key |-> key, Value |-> value]

StructType(fields) == [node |-> "StructType", Fields |-> fields]

\* interface{}: a node rewriteType has no case for
InterfaceType == [node |-> "InterfaceType"]

Field(names, type, tag) == [Names |-> names, Type |-> type, Tag |-> tag]

\* a type declaration with the comments of its GenDecl
TypeSpec(name, type, doc) == [Name |-> name, Type |-> type, Doc |-> doc]

\* an import of a file, Name "" when it has no alias
ImportSpec(name, path) == [Name |-> name, Path |-> path]

\* a loaded package with one file
Package(path, name, imports, decls) ==
    [PkgPath |-> path, Name |-> name, Imports |-> imports, Decls |-> decls]

MetaV1 == "k8s.io/apimachinery/pkg/apis/meta/v1"

ApiPath == "example.io/api/v1"

CommonPath == "example.io/common"

AltPath == "example.io/alt/common"

RootMarker == "// +kubebuilder:object:root=true"

ApiPkg ==
    Package(ApiPath, "v1",
        <<ImportSpec("metav1", MetaV1), ImportSpec("", "time"), ImportSpec("", CommonPath),
          ImportSpec("alt", AltPath), ImportSpec("", "gopkg.in/inf.v0")>>,
        <<TypeSpec("Widget",
              StructType(<<Field(<<>>, SelectorExpr("metav1", "TypeMeta"), "json:inline"),
                           Field(<<>>, SelectorExpr("metav1", "ObjectMeta"), "json:metadata"),
                           Field(<<"Spec">>, Ident("WidgetSpec"), "json:spec"),
                           Field(<<"Status">>, Ident("WidgetStatus"), "json:status")>>),
              <<"// Widget is the Schema for the widgets API">>),
          TypeSpec("WidgetList",
              StructType(<<Field(<<>>, SelectorExpr("metav1", "TypeMeta"), "json:inline"),
                           Field(<<>>, SelectorExpr("metav1", "ListMeta"), "json:metadata"),
                           Field(<<"Items">>, ArrayType(Ident("Widget")), "json:items")>>),
              <<RootMarker, "// WidgetList contains a list of Widget">>),
          TypeSpec("WidgetSpec",
              StructType(<<Field(<<"Size">>, Ident("int"), "json:size"),
                           Field(<<"Timeout">>, SelectorExpr("time", "Duration"), "json:timeout"),
                           Field(<<"Parts">>, ArrayType(Ident("Part")), "json:parts"),
                           Field(<<"Owner">>, SelectorExpr("common", "Ref"), "json:owner"),
                           Field(<<"Raw">>, InterfaceType, "json:raw"),
                           Field(<<"Labels">>, MapType(Ident("string"), Ident("string")),
                                 "json:labels")>>),
              <<>>),
          TypeSpec("WidgetStatus",
              StructType(<<Field(<<"Conditions">>, ArrayType(Ident("Condition")),
                                 "json:conditions"),
                           Field(<<"Shared">>, ArrayType(SelectorExpr("common", "Condition")),
                                 "json:shared"),
                           Field(<<"Other">>,
                                 MapType(Ident("string"), SelectorExpr("alt", "Condition")),
                                 "json:other")>>),
              <<>>),
          TypeSpec("Condition",
              StructType(<<Field(<<"Type">>, Ident("string"), "json:type")>>), <<>>),
          TypeSpec("Part",
              StructType(<<Field(<<"Name">>, Ident("string"), "json:name"),
                           Field(<<"Children">>, ArrayType(Ident("Part")), "json:children"),
                           Field(<<"Parent">>, StarExpr(Ident("Assembly")), "json:parent")>>),
              <<>>),
          TypeSpec("Assembly",
              StructType(<<Field(<<"Parts">>, ArrayType(Ident("Part")), "json:parts")>>),
              <<>>),
          TypeSpec("Gauge",
              StructType(<<Field(<<"Amount">>, StarExpr(SelectorExpr("inf", "Dec")),
                                 "json:amount")>>),
              <<>>)>>)

\* ex.pkgs as packages.Visit fills it: the root package and what it imports
LoadedPkgs ==
    (ApiPath :> ApiPkg)
 @@ (CommonPath :>
       Package(CommonPath, "common", <<>>,
               <<TypeSpec("Ref",
                     StructType(<<Field(<<"Name">>, Ident("string"), "json:name"),
                                  Field(<<"Kind">>, Ident("Kind"), "json:kind")>>), <<>>),
                 TypeSpec("Kind", Ident("string"), <<>>),
                 TypeSpec("Condition",
                     StructType(<<Field(<<"Status">>, Ident("string"), "json:status")>>), <<>>)>>))
 @@ (AltPath :>
       Package(AltPath, "common", <<>>,
               <<TypeSpec("Condition",
                     StructType(<<Field(<<"Reason">>, Ident("string"), "json:reason")>>), <<>>)>>))
 @@ ("gopkg.in/inf.v0" :>
       Package("gopkg.in/inf.v0", "inf", <<>>,
               <<TypeSpec("Dec",
                     StructType(<<Field(<<"scale">>, Ident("int32"), "")>>), <<>>)>>))
 @@ (MetaV1 :> Package(MetaV1, "v1", <<>>, <<>>))
 @@ ("time" :> Package("time", "time", <<>>, <<>>))

\* the values of --type
TypeNames == {"Widget", "Part", "Gauge", "Condition", "Missing", "Widget, Part",
              "Gauge,Widget", "WidgetStatus,Condition", "Assembly , Gauge", "Part,Part"}

(***************************************************************************)
(* flatten-crd-api: the Extractor                                          *)
(***************************************************************************)
allowedPkgs == (MetaV1 :> "metav1") @@ ("time" :> "time") @@ ("encoding/json" :> "json")

RECURSIVE Itoa(_)
\* fmt.Sprintf("%d", n) for n >= 0
Itoa(n) == IF n < 10 THEN Char(Digits, n + 1)
           ELSE Itoa(n \div 10) \o Char(Digits, (n % 10) + 1)

RECURSIVE TrimLeft(_)
TrimLeft(s) == IF s # "" /\ Char(s, 1) = " " THEN TrimLeft(Tail(s)) ELSE s

RECURSIVE TrimRight(_)
TrimRight(s) ==
    IF s # "" /\ Char(s, Len(s)) = " " THEN TrimRight(SubSeq(s, 1, Len(s) - 1)) ELSE s

\* strings.TrimSpace on strings whose only white space is the blank
TrimSpace(s) == TrimRight(TrimLeft(s))

\* strings.HasSuffix(t, p)
HasSuffix(t, p) == Len(t) >= Len(p) /\ SubSeq(t, Len(t) - Len(p) + 1, Len(t)) = p

\* strings.Contains(s, sub)
ContainsString(s, sub) ==
    \E i \in 1..(Len(s) - Len(sub) + 1) : SubSeq(s, i, i + Len(sub) - 1) = sub

isBasicType(name) ==
    name \in {"bool", "uint", "uint8", "uint16", "uint32", "uint64",
              "int", "int8", "int16", "int32", "int64",
              "float32", "float64", "complex64", "complex128",
              "string", "byte", "rune", "uintptr", "error"}

typeKey(pkgPath, name) == pkgPath \o "." \o name

\* the Extractor main builds (lines 95-108)
NewExtractor(ptr) ==
    [processed |-> <<>>, usedLocalNames |-> {}, queue |-> <<>>, imports |-> <<>>,
     localDecls |-> <<>>, rootPkg |-> ApiPath, pointers |-> ptr]

RECURSIVE fallbackName(_, _, _)
\* lines 152-163 of enqueue: the first of candidate2, candidate3, ... not in use
fallbackName(used, candidate, i) ==
    IF candidate \o Itoa(i) \notin used THEN candidate \o Itoa(i)
    ELSE fallbackName(used, candidate, i + 1)

\* lines 144-149 of enqueue: the package name with its first letter in upper case
exportedPkgName(pkgName) ==
    With(IF pkgName = "" THEN "Pkg" ELSE pkgName,
         LAMBDA n : ToUpper(Char(n, 1)) \o Tail(n))

\* the naming without the fallback loop
localNameOf_noFallback(used, pkgName, name) ==
    IF name \notin used THEN name ELSE exportedPkgName(pkgName) \o name

\* lines 141-165 of enqueue: the local name of a type not seen before
localNameOf(used, pkgName, name) ==
    IF name \notin used THEN name
    ELSE With(exportedPkgName(pkgName) \o name,
              LAMBDA candidate : IF candidate \in used
                                 THEN fallbackName(used, candidate, 2)
                                 ELSE candidate)

\* lines 167-170 of enqueue
queued(e, pkgPath, name, localName) ==
    [ex |-> [e EXCEPT !.usedLocalNames = @ \cup {localName},
                      !.processed = (typeKey(pkgPath, name) :> localName) @@ @,
                      !.queue = Append(@, [pkg |-> pkgPath, name |-> name])],
     ln |-> localName]

\* enqueue without the look-up in processed
enqueue_again(e, pkgPath, name) ==
    queued(e, pkgPath, name,
           localNameOf(e.usedLocalNames, LoadedPkgs[pkgPath].Name, name))

\* ex.enqueue(pkg, name): the Extractor after the call and the name returned
enqueue(e, pkgPath, name) ==
    IF typeKey(pkgPath, name) \in DOMAIN e.processed
    THEN [ex |-> e, ln |-> e.processed[typeKey(pkgPath, name)]]
    ELSE queued(e, pkgPath, name,
                localNameOf(e.usedLocalNames, LoadedPkgs[pkgPath].Name, name))

\* lines 430-437 of resolveImport: the name a file refers to an import by
importName(imp) == IF imp.Name # "" THEN imp.Name ELSE Last(Split(imp.Path, "/"))

RECURSIVE resolveFrom(_, _, _)
resolveFrom(imports, alias, i) ==
    IF i > Len(imports) THEN ""
    ELSE IF importName(imports[i]) = alias THEN imports[i].Path
    ELSE resolveFrom(imports, alias, i + 1)

\* resolveImport(f, alias)
resolveImport(imports, alias) == resolveFrom(imports, alias, 1)

isStdLib(path) == ~Contains(Split(path, "/")[1], ".")

RECURSIVE stdAlias(_, _, _, _)
\* lines 381-396 of getImportAlias: base, base1, base2, ... until no other
\* import has the alias
stdAlias(imports, path, base, count) ==
    With(IF count = 0 THEN base ELSE base \o Itoa(count),
         LAMBDA alias :
            IF \E p \in DOMAIN imports : imports[p] = alias /\ p # path
            THEN stdAlias(imports, path, base, count + 1)
            ELSE alias)

\* the import of path recorded under alias
imported(e, path, alias) ==
    [ex |-> [e EXCEPT !.imports = (path :> alias) @@ @], alias |-> alias]

\* ex.getImportAlias(path): the Extractor after the call and the alias, ""
\* for a package to flatten
getImportAlias(e, path) ==
    IF path \in DOMAIN e.imports THEN [ex |-> e, alias |-> e.imports[path]]
    ELSE IF path \in DOMAIN allowedPkgs THEN imported(e, path, allowedPkgs[path])
    ELSE IF isStdLib(path)
    THEN imported(e, path,
                  stdAlias(e.imports, path,
                           ReplaceAll(ReplaceAll(Last(Split(path, "/")), ".", ""), "-", ""),
                           0))
    ELSE [ex |-> e, alias |-> ""]

\* ex.wrap(expr)
wrap(ptr, expr) ==
    IF ~ptr THEN expr
    ELSE IF expr.node \in {"StarExpr", "ArrayType", "MapType"} THEN expr
    ELSE IF expr.node = "SelectorExpr" /\ expr.X = "metav1"
            /\ expr.Sel \in {"TypeMeta", "ObjectMeta"}
    THEN expr
    ELSE StarExpr(expr)

\* the result of rewriteType: the Extractor after the call and the expression
Rewritten(e, expr) == [ex |-> e, expr |-> expr]

\* lines 350-356 of rewriteType: the selected type of a package to flatten
rewriteForeign(e, importPath, sel) ==
    IF importPath \notin DOMAIN LoadedPkgs THEN Rewritten(e, Ident(sel))
    ELSE With(enqueue(e, importPath, sel), LAMBDA q : Rewritten(q.ex, Ident(q.ln)))

\* lines 337-348 of rewriteType
rewriteImported(e, importPath, sel) ==
    IF importPath = "" THEN Rewritten(e, Ident(sel))
    ELSE With(getImportAlias(e, importPath),
              LAMBDA a : IF a.alias # "" THEN Rewritten(a.ex, SelectorExpr(a.alias, sel))
                         ELSE rewriteForeign(a.ex, importPath, sel))

RECURSIVE rewriteType(_, _, _)
RECURSIVE rewriteFields(_, _, _, _, _)
RECURSIVE rewriteValue(_, _, _, _)
\* the loop over the fields of a struct (lines 295-306)
rewriteFields(e, pkgPath, fields, i, out) ==
    IF i > Len(fields) THEN [ex |-> e, fields |-> out]
    ELSE With(rewriteType(e, pkgPath, fields[i].Type),
              LAMBDA r : rewriteFields(r.ex, pkgPath, fields, i + 1,
                             Append(out, Field(fields[i].Names, wrap(e.pointers, r.expr),
                                               fields[i].Tag))))

\* lines 317-321: the value of a map with the key already rewritten
rewriteValue(k, pkgPath, value, ptr) ==
    With(rewriteType(k.ex, pkgPath, value),
         LAMBDA v : Rewritten(v.ex, MapType(k.expr, wrap(ptr, v.expr))))

\* ex.rewriteType(pkg, expr); every package has one file, which
\* findFileForNode finds
rewriteType(e, pkgPath, t) ==
    CASE t.node = "StructType" ->
            With(rewriteFields(e, pkgPath, t.Fields, 1, <<>>),
                 LAMBDA r : Rewritten(r.ex, StructType(r.fields)))
      [] t.node = "StarExpr" ->
            With(rewriteType(e, pkgPath, t.X),
                 LAMBDA r : Rewritten(r.ex, StarExpr(r.expr)))
      [] t.node = "ArrayType" ->
            With(rewriteType(e, pkgPath, t.Elt),
                 LAMBDA r : Rewritten(r.ex, ArrayType(wrap(e.pointers, r.expr))))
      [] t.node = "MapType" ->
            rewriteValue(rewriteType(e, pkgPath, t.Key), pkgPath, t.Value, e.pointers)
      [] t.node = "Ident" ->
            IF isBasicType(t.Name) THEN Rewritten(e, Ident(t.Name))
            ELSE With(enqueue(e, pkgPath, t.Name), LAMBDA q : Rewritten(q.ex, Ident(q.ln)))
      [] t.node = "SelectorExpr" ->
            rewriteImported(e, resolveImport(LoadedPkgs[pkgPath].Imports, t.X), t.Sel)
      [] OTHER -> Rewritten(e, t)

RECURSIVE findTypeSpec(_, _, _)
\* lines 185-205 of extractType: the index of the first declaration of name,
\* 0 if there is none
findTypeSpec(decls, name, i) ==
    IF i > Len(decls) THEN 0
    ELSE IF decls[i].Name = name THEN i
    ELSE findTypeSpec(decls, name, i + 1)

\* lines 218-229 of extractType: the struct embeds metav1.TypeMeta
isRoot(type) ==
    /\ type.node = "StructType"
    /\ \E f \in 1..Len(type.Fields) :
          /\ type.Fields[f].Type.node = "SelectorExpr"
          /\ type.Fields[f].Type.X = "metav1"
          /\ type.Fields[f].Type.Sel = "TypeMeta"

\* lines 216, 231-245 of extractType: the comments of the new declaration
docOf(spec, name) ==
    IF (isRoot(spec.Type) \/ HasSuffix(name, "List"))
       /\ ~\E c \in 1..Len(spec.Doc) :
              ContainsString(spec.Doc[c], "+kubebuilder:object:root=true")
    THEN <<RootMarker>> \o spec.Doc
    ELSE spec.Doc

\* lines 213-258 of extractType: the declaration found is rewritten and emitted
emitType(e, pkgPath, spec, localName) ==
    With(rewriteType(e, pkgPath, spec.Type),
         LAMBDA r : [r.ex EXCEPT !.localDecls =
                        Append(@, TypeSpec(localName, r.expr, docOf(spec, spec.Name)))])

\* ex.extractType(pkg, name): the Extractor after the call, and whether the
\* type was found
extractType(e, pkgPath, name) ==
    With(findTypeSpec(LoadedPkgs[pkgPath].Decls, name, 1),
         LAMBDA i :
            IF i = 0 THEN [ex |-> e, found |-> FALSE]
            ELSE [ex |-> emitType(e, pkgPath, LoadedPkgs[pkgPath].Decls[i],
                                  e.processed[typeKey(pkgPath, name)]),
                  found |-> TRUE])

\* lines 112-120 of main: the type asked for is queued, and its List type
enqueueRoot(e, name) ==
    With(enqueue(e, e.rootPkg, name).ex,
         LAMBDA e1 : IF findTypeSpec(LoadedPkgs[e.rootPkg].Decls, name \o "List", 1) # 0
                     THEN enqueue(e1, e.rootPkg, name \o "List").ex
                     ELSE e1)

\* what generate prints: the imports and the declarations
generate(e) == [imports |-> e.imports, decls |-> e.localDecls]

\* the keys of the requests queue has and before has not
newKeys(before, queue) ==
    [n \in 1..(Len(queue) - Len(before)) |->
        typeKey(queue[Len(before) + n].pkg, queue[Len(before) + n].name)]

(***************************************************************************)
(* flatten-crd-api: one run of the command                                 *)
(***************************************************************************)
InitFlatten ==
    /\ ex \in {NewExtractor(ptr) : ptr \in BOOLEAN}
    /\ job \in {[at |-> "main", types |-> Split(t, ","), pos |-> 1, queued |-> <<>>,
                 extracted |-> <<>>, missing |-> <<>>, out |-> <<>>] : t \in TypeNames}
    /\ naming = NoCalls
    /\ mapping = NoMapping
    /\ NotRun

\* one iteration of the loop of main (lines 111-120); after the last one main
\* calls process
EnqueueType ==
    /\ job.at = "main"
    /\ job.pos <= Len(job.types)
    /\ ex' = enqueueRoot(ex, TrimSpace(job.types[job.pos]))
    /\ job' = [job EXCEPT !.pos = @ + 1,
                          !.queued = @ \o newKeys(ex.queue, ex'.queue),
                          !.at = IF job.pos = Len(job.types) THEN "process" ELSE "main"]
    /\ UNCHANGED <<naming, mapping, crds, version, pointers, iterOrder, pc, crdIdx, res,
                   crdKind, success, logs, err, files, written, parsed, runs, prev>>

\* one iteration of the loop of process
Extract ==
    /\ job.at = "process"
    /\ ex.queue # <<>>
    /\ \E x \in {extractType([ex EXCEPT !.queue = Tail(@)], ex.queue[1].pkg,
                             ex.queue[1].name)} :
          /\ ex' = x.ex
          /\ job' = [job EXCEPT
                        !.extracted = Append(@, typeKey(ex.queue[1].pkg, ex.queue[1].name)),
                        !.queued = @ \o newKeys(Tail(ex.queue), x.ex.queue),
                        !.missing = IF x.found THEN @
                                    ELSE Append(@, typeKey(ex.queue[1].pkg,
                                                           ex.queue[1].name))]
    /\ UNCHANGED <<naming, mapping, crds, version, pointers, iterOrder, pc, crdIdx, res,
                   crdKind, success, logs, err, files, written, parsed, runs, prev>>

\* process returns on the empty queue and main calls generate
Generate ==
    /\ job.at = "process"
    /\ ex.queue = <<>>
    /\ job' = [job EXCEPT !.at = "exit", !.out = <<generate(ex)>>]
    /\ UNCHANGED <<ex, naming, mapping, crds, version, pointers, iterOrder, pc, crdIdx, res,
                   crdKind, success, logs, err, files, written, parsed, runs, prev>>

NextFlatten == EnqueueType \/ Extract \/ Generate

SpecFlatten == InitFlatten /\ [][NextFlatten]_vars

\* the command is one sequential process: it takes the step it is at
SpecFlattenFair ==
    SpecFlatten /\ WF_vars(EnqueueType) /\ WF_vars(Extract) /\ WF_vars(Generate)

(***************************************************************************)
(* flatten-crd-api: enqueue called in any order                            *)
(***************************************************************************)
MaxEnqueues == 4

InitEnqueue ==
    /\ ex = NewExtractor(FALSE)
    /\ job = [at |-> "enqueue", calls |-> <<>>]
    /\ naming = NoCalls
    /\ mapping = NoMapping
    /\ NotRun

\* one call ex.enqueue(pkg, name)
EnqueueCall ==
    /\ Len(job.calls) < MaxEnqueues
    /\ \E pkgPath \in {ApiPath, CommonPath, AltPath},
          name \in {"Condition", "CommonCondition", "CommonCondition2"} :
          \E q \in {enqueue(ex, pkgPath, name)} :
             /\ ex' = q.ex
             /\ job' = [job EXCEPT !.calls = Append(@, [key |-> typeKey(pkgPath, name),
                                                         ln |-> q.ln])]
    /\ UNCHANGED <<naming, mapping, crds, version, pointers, iterOrder, pc, crdIdx, res,
                   crdKind, success, logs, err, files, written, parsed, runs, prev>>

SpecEnqueue == InitEnqueue /\ [][EnqueueCall]_vars

(***************************************************************************)
(* Properties                                                              *)
(***************************************************************************)
\* the schema Parse compiles for the k-th file of the batch
SchemaOf(k) == extractSchemas(FileTable[crds[k]].crd, parsed[1].Version).schema[1]

RECURSIVE BaseType(_)
\* a field type without its slice and pointer markers
BaseType(t) ==
    IF Len(t) >= 2 /\ SubSeq(t, 1, 2) = "[]" THEN BaseType(SubSeq(t, 3, Len(t)))
    ELSE IF Len(t) >= 1 /\ Char(t, 1) = "*" THEN BaseType(Tail(t))
    ELSE t

\* the root struct and the nested structs of a resource
StructDefs(cr) == {cr.Root} \cup {cr.Structs[n] : n \in DOMAIN cr.Structs}

\* the types a batch generates: each resource's root struct, its nested
\* structs, and the enums its fields define
GeneratedTypes(r) ==
    UNION {   {[item |-> k, kind |-> "struct", root |-> d.Root, owner |-> "",
                name |-> d.Name] :
                  d \in StructDefs(r.Items[k])}
         \cup {[item |-> k, kind |-> "enum", root |-> FALSE, owner |-> d.Name,
                name |-> d.Fields[f].EnumName] :
                  <<d, f>> \in {x \in StructDefs(r.Items[k]) \X (1..20) :
                                  /\ x[2] <= Len(x[1].Fields)
                                  /\ x[1].Fields[x[2]].EnumName # ""}}
          : k \in 1..Len(r.Items)}

\* C1: after Parse of any batch, the names of all generated types (root
\* structs, nested structs, enums) are pairwise distinct across the batch.
C1_NamesDistinct ==
    parsed # <<>> =>
        \A a, b \in GeneratedTypes(parsed[1]) : a.name = b.name => a = b

\* the field of struct d compiled from the property pn
FieldAt(d, pn) == d.Fields[CHOOSE f \in 1..Len(d.Fields) : d.Fields[f].JSONTag = pn]

\* the resources of r that define a nested struct named n
Definers(r, n) == {k \in 1..Len(r.Items) : n \in DOMAIN r.Items[k].Structs}

\* the object schema a property brings: itself, or the item schema of an array
ObjectIn(prop) ==
    IF prop.type = "object" THEN <<prop>>
    ELSE IF prop.type = "array" /\ prop.items # <<>> /\ prop.items[1].type = "object"
    THEN <<prop.items[1]>>
    ELSE <<>>

HasEnum(prop) ==
    Len(prop.enum) > 0 \/ (prop.items # <<>> /\ Len(prop.items[1].enum) > 0)

RECURSIVE ObjectRefs(_, _, _, _, _)
\* the object schemas under schema, compiled as struct d of resource k of r:
\* for each the place, the schema, the property that brings it and the base
\* type of the field that refers to it
ObjectRefs(r, k, schema, d, path) ==
    UNION {
        LET prop == schema.props[pn]
            o == ObjectIn(prop)
            t == BaseType(FieldAt(d, pn).Type)
            def == Definers(r, t)
        IN  IF o = <<>> THEN {}
            ELSE {[at |-> <<k, path \o "." \o pn>>, schema |-> o[1], prop |-> prop,
                   type |-> t]}
                 \cup (IF DOMAIN o[1].props # {} /\ def # {}
                       THEN ObjectRefs(r, k, o[1],
                                       r.Items[CHOOSE j \in def : TRUE].Structs[t],
                                       path \o "." \o pn)
                       ELSE {})
        : pn \in DOMAIN schema.props}

\* the object schemas of the whole batch Parse returned
BatchRefs ==
    UNION {ObjectRefs(parsed[1], k, SchemaOf(k), parsed[1].Items[k].Root, "")
           : k \in 1..Len(parsed[1].Items)}

\* C2 as stated: two object schemas with identical property sets, as a direct
\* property or as an array item, anywhere in the batch, have fields of the same
\* struct name, and that struct is generated exactly once in the batch.
C2_IdenticalObjectsShareStruct ==
    parsed # <<>> =>
        \A a, b \in BatchRefs :
            a.schema.props = b.schema.props =>
                a.type = b.type /\ Cardinality(Definers(parsed[1], a.type)) = 1

\* the object schemas of the batch that are compiled to a struct their field
\* refers to: those with properties, brought by a property that declares no
\* enum literals, neither on itself nor on its item schema
StructRefs == {x \in BatchRefs : DOMAIN x.schema.props # {} /\ ~HasEnum(x.prop)}

\* C2, amended: two object schemas with identical non-empty property sets,
\* each a direct property or the item schema of an array property, where
\* neither property declares enum literals on itself or on its item schema,
\* have fields of the same struct name, and that struct is generated exactly
\* once in the batch.
C2_IdenticalPropertiesShareStruct ==
    parsed # <<>> =>
        \A a, b \in StructRefs :
            a.schema.props = b.schema.props =>
                a.type = b.type /\ Cardinality(Definers(parsed[1], a.type)) = 1

\* a batch of two resources that both hold an object with the same non-empty
\* properties, one as a property and one as an array item, and that holds
\* these properties once more on an object that lists enum literals, whose
\* field has the type of the enum
C2_Witness ==
    /\ parsed # <<>>
    /\ \E a, b \in StructRefs :
          /\ a.at[1] # b.at[1]
          /\ a.schema.props = b.schema.props
          /\ b.prop.type = "array"
          /\ a.prop.type = "object"
          /\ a.type = b.type
          /\ \E c \in BatchRefs :
                /\ HasEnum(c.prop)
                /\ c.schema.props = a.schema.props
                /\ c.type # a.type

\* the type model of what Parse returned: the exported fields of res
TypeModel(p) ==
    IF p = <<>> THEN <<>>
    ELSE [Items |-> p[1].Items, Names |-> p[1].Names, Group |-> p[1].Group,
          Version |-> p[1].Version]

\* C3: Parse is deterministic: a second run on the same resources in the same
\* batch order, from an empty registry, ends as the first did and returns an
\* identical type model (struct names, fields, field types, enums, imports).
C3_ParseDeterministic ==
    (prev # <<>> /\ pc = "done") =>
        /\ success = prev[1].success
        /\ logs = prev[1].logs
        /\ TypeModel(parsed) = TypeModel(prev[1].parsed)

\* a second run that compiled a batch of two resources; it iterated its maps
\* in key order, the run before it in another order
C3_Witness ==
    /\ prev # <<>>
    /\ pc = "done"
    /\ iterOrder = 0
    /\ parsed # <<>>
    /\ Len(parsed[1].Items) = 2
    /\ \E k \in 1..2 : Cardinality(DOMAIN parsed[1].Items[k].Structs) >= 4

\* the field names of every struct of a resource, in the order Parse left them
FieldOrder(cr) ==
    [n \in DOMAIN cr.Structs \cup {""} |->
        LET d == IF n = "" THEN cr.Root ELSE cr.Structs[n]
        IN  [f \in 1..Len(d.Fields) |-> d.Fields[f].Name]]

\* C4: visiting the properties of the schemas in another permutation of the
\* map iteration order yields the same struct and enum names for the same
\* signatures and the same field order in every struct.
C4_IterationOrderIrrelevant ==
    (prev # <<>> /\ parsed # <<>>) =>
        /\ prev[1].parsed # <<>>
        /\ parsed[1].structHashes = prev[1].parsed[1].structHashes
        /\ parsed[1].structNames = prev[1].parsed[1].structNames
        /\ \A k \in 1..Len(parsed[1].Items) :
              FieldOrder(parsed[1].Items[k]) = FieldOrder(prev[1].parsed[1].Items[k])

\* two runs over a schema with an object of six properties and structs and
\* enums in the registry, this one in the last iteration order, the one
\* before in another
C4_Witness ==
    /\ prev # <<>>
    /\ parsed # <<>>
    /\ iterOrder = MaxOrder
    /\ Cardinality(DOMAIN parsed[1].structHashes) >= 6
    /\ \E k \in 1..Len(parsed[1].Items) :
         \E n \in DOMAIN parsed[1].Items[k].Structs :
            Len(parsed[1].Items[k].Structs[n].Fields) >= 6

\* the source keys of the fields of the root struct in the k-th types file
RootTags(k) ==
    [f \in 1..Len(files[k].content.Root.Fields) |-> files[k].content.Root.Fields[f].JSONTag]

\* C5: the root struct handed to the template holds exactly the fields whose
\* source key is spec or status, each once, whatever other top-level
\* properties the schema declares.
C5_RootHoldsSpecAndStatus ==
    \A k \in 1..Len(files) :
        k <= Len(res.Items) =>
            /\ {RootTags(k)[f] : f \in DOMAIN RootTags(k)}
                 = DOMAIN SchemaOf(k).props \cap {"spec", "status"}
            /\ \A f, g \in DOMAIN RootTags(k) : RootTags(k)[f] = RootTags(k)[g] => f = g

\* a types file of a resource whose schema declares apiVersion, kind and
\* metadata besides spec and status
C5_Witness ==
    \E k \in 1..Len(files) :
        /\ k <= Len(res.Items)
        /\ {"apiVersion", "kind", "metadata", "spec", "status"} \subseteq DOMAIN SchemaOf(k).props
        /\ Len(files[k].content.Root.Fields) = 2

\* the Condition shape: type, status (True, False, Unknown), reason, message,
\* lastTransitionTime (date-time)
IsCondition(schema) ==
    /\ DOMAIN schema.props = {"type", "status", "reason", "message", "lastTransitionTime"}
    /\ schema.props["status"].enum = <<"\"True\"", "\"False\"", "\"Unknown\"">>
    /\ schema.props["lastTransitionTime"].format = "date-time"

\* C6: every object schema of the Condition shape, nested directly or as an
\* array item, has the shared external Condition type as its field type; no
\* struct is generated and no name is reserved for it.
C6_ConditionIsShared ==
    parsed # <<>> =>
        \A a \in BatchRefs :
            IsCondition(a.schema) =>
                /\ a.type = "metav1.Condition"
                /\ \A k \in 1..Len(parsed[1].Items) :
                     \A n \in DOMAIN parsed[1].Items[k].Structs :
                        {parsed[1].Items[k].Structs[n].Fields[f].JSONTag :
                            f \in 1..Len(parsed[1].Items[k].Structs[n].Fields)}
                          # DOMAIN a.schema.props
                /\ parsed[1].structNames \cap
                     {ToCamelCase(a.prop.description \o Last(Split(a.at[2], "."))),
                      parsed[1].Items[a.at[1]].Kind \o ToCamelCase(Last(Split(a.at[2], ".")))}
                     = {}

\* the k-th file of the batch is a readable resource definition
IsCRD(k) ==
    /\ FileTable[crds[k]].readable
    /\ FileTable[crds[k]].yaml
    /\ FileTable[crds[k]].crd.Versions # <<>>

KindOf(k) == FileTable[crds[k]].crd.Kind

GroupOf(k) == FileTable[crds[k]].crd.Group

\* the k-th resource lists version v; flags a version of that name as storage
Lists(k, v) ==
    \E n \in 1..Len(FileTable[crds[k]].crd.Versions) :
        FileTable[crds[k]].crd.Versions[n].Name = v

Stores(k, v) ==
    \E n \in 1..Len(FileTable[crds[k]].crd.Versions) :
        /\ FileTable[crds[k]].crd.Versions[n].Name = v
        /\ FileTable[crds[k]].crd.Versions[n].Storage

\* C7: when two resources of one batch declare different API groups, Parse
\* fails for the whole batch and the reported error names both resource kinds
\* and both groups.
C7_GroupMismatchReported ==
    (pc = "done" /\ \E j, k \in 1..Len(crds) :
                        IsCRD(j) /\ IsCRD(k) /\ GroupOf(j) # GroupOf(k)) =>
        /\ ~success
        /\ parsed = <<>>
        /\ logs # <<>>
        /\ \E j, k \in 1..Len(crds) :
              /\ IsCRD(j) /\ IsCRD(k) /\ GroupOf(j) # GroupOf(k)
              /\ Last(logs).msg = "Not all CRD have the same group"
              /\ Last(logs).attrs["kind-a"] = KindOf(j)
              /\ Last(logs).attrs["group-a"] = GroupOf(j)
              /\ Last(logs).attrs["kind-b"] = KindOf(k)
              /\ Last(logs).attrs["group-b"] = GroupOf(k)

\* C8: when a version is pinned and a resource of the batch does not offer
\* it, the batch fails with a consistency error that names the two resource
\* kinds involved and the version as the disagreeing field.
C8_VersionMismatchReported ==
    (pc = "done" /\ version # "" /\
        \E k \in 2..Len(crds) :
            /\ \A j \in 1..(k - 1) :
                  IsCRD(j) /\ Stores(j, version) /\ GroupOf(j) = GroupOf(k)
            /\ IsCRD(k)
            /\ ~Lists(k, version)) =>
        /\ ~success
        /\ logs # <<>>
        /\ \E k \in 2..Len(crds) :
              /\ ~Lists(k, version)
              /\ Last(logs).msg = "Not all CRD have the same version"
              /\ Last(logs).attrs["kind-a"] = KindOf(k - 1)
              /\ Last(logs).attrs["kind-b"] = KindOf(k)
              /\ Last(logs).attrs["version-a"] = version

\* C9: with a desired version, a resource is compiled only if that version is
\* the one flagged as storage; a desired version that a resource lists but
\* does not flag as storage makes Parse fail, also for a batch of one.
C9_DesiredVersionIsStorage ==
    (pc = "done" /\ version # "" /\ crds # <<>>) =>
        /\ success =>
              /\ \A k \in 1..Len(crds) : Stores(k, version)
              /\ \A k \in 1..Len(parsed[1].Items) : parsed[1].Items[k].version = version
        /\ (\E k \in 1..Len(crds) : IsCRD(k) /\ Lists(k, version) /\ ~Stores(k, version)) =>
              /\ ~success
              /\ parsed = <<>>
              /\ written = <<>>
              /\ err = "failed to parse CRDs"

\* a batch of one resource that lists the desired version without flagging
\* it as storage has failed
C9_Witness ==
    /\ pc = "done"
    /\ Len(crds) = 1
    /\ version = "v1"
    /\ Lists(1, "v1")
    /\ ~Stores(1, "v1")
    /\ ~success
    /\ Last(logs).msg = "Error parsing crd"

HasPrefix(t, p) == Len(t) >= Len(p) /\ SubSeq(t, 1, Len(p)) = p

\* the pointer form of a type: a sequence or a mapping keeps its collection
\* and its element becomes a pointer, any other type becomes a pointer
PointerForm(t) ==
    IF HasPrefix(t, "[]") THEN "[]*" \o SubSeq(t, 3, Len(t))
    ELSE IF HasPrefix(t, "map[string]") THEN "map[string]*" \o SubSeq(t, 12, Len(t))
    ELSE "*" \o t

\* the field types of the root struct and of every nested struct of a batch
FieldTypes(r) ==
    [k \in 1..Len(r.Items) |->
        [n \in DOMAIN r.Items[k].Structs \cup {""} |->
            LET d == IF n = "" THEN r.Items[k].Root ELSE r.Items[k].Structs[n]
            IN  [f \in 1..Len(d.Fields) |-> d.Fields[f].Type]]]

\* C10: with pointer output requested, the end of Parse gives every scalar
\* field the pointer form of its type and every sequence or mapping field a
\* pointer element type; without the flag no field type is changed.
C10_PointerConversion ==
    [][(pc = "parse" /\ pc' = "render") =>
          IF pointers
          THEN \A k \in 1..Len(res.Items) :
                  \A n \in DOMAIN FieldTypes(res)[k] :
                     \A f \in DOMAIN FieldTypes(res)[k][n] :
                        FieldTypes(res')[k][n][f] = PointerForm(FieldTypes(res)[k][n][f])
          ELSE FieldTypes(res') = FieldTypes(res)]_vars

\* the fields of a batch that define an enum: resource, struct ("" the root)
\* and the FieldDef
EnumFields(r) ==
    UNION {UNION {{[k |-> k, struct |-> d.Name, field |-> d.Fields[f]]
                     : f \in {g \in 1..Len(d.Fields) : d.Fields[g].Enums # <<>>}}
                  : d \in StructDefs(r.Items[k])}
           : k \in 1..Len(r.Items)}

\* an enum literal without its quotes
Cleaned(lit) == ReplaceAll(lit, "\"", "")

\* C11: each enum constant is named EnumName + PascalCase(cleaned literal);
\* the constants of the literals "*" and "" carry reserved suffixes, so they
\* differ from each other and from the enum's type name.
C11_EnumConstantNames ==
    parsed # <<>> =>
        \A e \in EnumFields(parsed[1]) :
            \A i, j \in 1..Len(e.field.Enums) :
                /\ Cleaned(e.field.Enums[i].Value) \notin {"*", ""} =>
                      e.field.Enums[i].Name
                        = e.field.EnumName \o ToCamelCase(Cleaned(e.field.Enums[i].Value))
                /\ Cleaned(e.field.Enums[i].Value) \in {"*", ""} =>
                      e.field.Enums[i].Name # e.field.EnumName
                /\ (Cleaned(e.field.Enums[i].Value) = "*"
                      /\ Cleaned(e.field.Enums[j].Value) = "") =>
                      e.field.Enums[i].Name # e.field.Enums[j].Name

\* the enum literals a property declares, on itself or on its item schema
LiteralsOf(prop) ==
    IF prop.items # <<>> /\ Len(prop.items[1].enum) > 0 THEN prop.items[1].enum
    ELSE prop.enum

RECURSIVE EnumRefs(_, _, _, _, _)
\* the properties with enum literals under schema, compiled as struct d of
\* resource k of r: for each the place, the set of its literals and the base
\* type of its field
EnumRefs(r, k, schema, d, path) ==
    UNION {
        LET prop == schema.props[pn]
            o == ObjectIn(prop)
            t == BaseType(FieldAt(d, pn).Type)
            def == Definers(r, t)
        IN  IF HasEnum(prop)
            THEN {[at |-> <<k, path \o "." \o pn>>,
                   literals |-> {LiteralsOf(prop)[i] : i \in 1..Len(LiteralsOf(prop))},
                   onItem |-> prop.items # <<>>,
                   enum |-> LiteralsOf(prop),
                   type |-> t]}
            ELSE IF o # <<>> /\ DOMAIN o[1].props # {} /\ def # {}
            THEN EnumRefs(r, k, o[1], r.Items[CHOOSE j \in def : TRUE].Structs[t],
                          path \o "." \o pn)
            ELSE {}
        : pn \in DOMAIN schema.props}

BatchEnumRefs ==
    UNION {EnumRefs(parsed[1], k, SchemaOf(k), parsed[1].Items[k].Root, "")
           : k \in 1..Len(parsed[1].Items)}

\* C12: two fields of one batch whose enum literal sets are equal by value,
\* in whatever order the literals are listed and whether the enum sits on the
\* property or on its array item schema, get the same enum type name, and
\* that enum is defined once.
C12_EqualLiteralsShareEnum ==
    parsed # <<>> =>
        \A a, b \in BatchEnumRefs :
            a.literals = b.literals =>
                /\ a.type = b.type
                /\ Cardinality({e \in EnumFields(parsed[1]) : e.field.EnumName = a.type}) = 1

\* those declared directly on a resource root
RootRefs == {x \in StructRefs : Len(Split(x.at[2], ".")) = 2}

\* the object schemas compiled to a struct that are nested below a root property
NestedRefs == StructRefs \ RootRefs

\* the key of the property a reference is declared by
KeyOf(x) == Last(Split(x.at[2], "."))

\* the key of the root property a reference lies under
RootKey(x) == Split(x.at[2], ".")[2]

\* the struct name Kind + PascalCase(key) of a root reference
KindName(x) == parsed[1].Items[x.at[1]].Kind \o ToCamelCase(RootKey(x))

\* an object schema with the properties of x was compiled before x: in an
\* earlier resource, or in this one under a root property of a smaller key
CompiledEarlier(x) ==
    \E y \in BatchRefs :
        /\ y.schema.props = x.schema.props
        /\ \/ y.at[1] < x.at[1]
           \/ y.at[1] = x.at[1] /\ Less(RootKey(y), RootKey(x))

\* the names of the nested structs and of the enums of the batch: the names
\* the registry hands out, apart from the fallback names
NestedNames ==
    {g.name : g \in {h \in GeneratedTypes(parsed[1]) : ~h.root}}

\* a kind that is not empty and consists of letters and digits
AlnumKind(kind) == kind # "" /\ \A i \in 1..Len(kind) : IsLetterOrNumber(Char(kind, i))

\* C13 as stated: an object property declared directly on the resource root
\* gets the struct name Kind + PascalCase(key), never the bare PascalCase(key).
C13_RootPropertyKindPrefixed ==
    parsed # <<>> =>
        \A x \in RootRefs :
            x.type = KindName(x) /\ x.type # ToCamelCase(RootKey(x))

\* C13, amended: in a resource with a non-empty alphanumeric kind, an object
\* property with properties (or an array of such objects) that is declared
\* directly on the resource root and lists no enum literals, and whose
\* property set was not compiled earlier in the batch, gets the struct name
\* Kind + PascalCase(key) unless a nested struct or an enum of the batch
\* holds that name, and never the bare PascalCase(key); kind Widget has the
\* root field Spec of type WidgetSpec, whose field Replicas has type int32.
\* Such a root property of any resource whose property set was compiled
\* earlier has the struct name of every other object property without enum
\* literals that has this property set, and that struct is generated once.
C13_NewRootPropertyKindPrefixed ==
    parsed # <<>> =>
        /\ \A x \in RootRefs :
              (AlnumKind(parsed[1].Items[x.at[1]].Kind) /\ ~CompiledEarlier(x)) =>
                  /\ \/ x.type = KindName(x)
                     \/ KindName(x) \in NestedNames
                  /\ x.type # ToCamelCase(RootKey(x))
        /\ \A x \in RootRefs :
              CompiledEarlier(x) =>
                  /\ \A y \in StructRefs :
                        y.schema.props = x.schema.props => y.type = x.type
                  /\ Cardinality(Definers(parsed[1], x.type)) = 1
        /\ \A k \in 1..Len(parsed[1].Items) :
              parsed[1].Items[k].Kind = "Widget" =>
                  /\ FieldAt(parsed[1].Items[k].Root, "spec").Name = "Spec"
                  /\ FieldAt(parsed[1].Items[k].Root, "spec").Type = "WidgetSpec"
                  /\ \E j \in Definers(parsed[1], "WidgetSpec") :
                        /\ FieldAt(parsed[1].Items[j].Structs["WidgetSpec"], "replicas").Name
                             = "Replicas"
                        /\ BaseType(FieldAt(parsed[1].Items[j].Structs["WidgetSpec"],
                                            "replicas").Type) = "int32"

\* a resource with a new root property named Kind + key, a new root property
\* that finds Kind + key held by a nested struct and gets another name, and a
\* root property that shares the struct of a nested object compiled before it
C13_Witness ==
    /\ parsed # <<>>
    /\ \E x \in RootRefs : x.type = "PolicySpec" /\ ~CompiledEarlier(x)
    /\ \E x \in RootRefs :
          /\ ~CompiledEarlier(x)
          /\ KindName(x) = "PolicyZone"
          /\ x.type # KindName(x)
          /\ Definers(parsed[1], "PolicyZone") # {}
    /\ \E x \in RootRefs :
          /\ CompiledEarlier(x)
          /\ x.type # KindName(x)
          /\ \E y \in NestedRefs : y.schema.props = x.schema.props /\ y.type = x.type

RECURSIVE PathSuffix(_, _)
\* the PascalCased last i segments of a path, concatenated in path order
PathSuffix(paths, i) ==
    IF i = 0 THEN ""
    ELSE ToCamelCase(paths[Len(paths) - i + 1]) \o PathSuffix(paths, i - 1)

\* the names a call tries in turn: the field name, Kind + field name, then
\* one more path segment in front at a time, innermost first
Candidates(c) ==
    <<c.fieldName, c.kind \o c.fieldName>>
    \o [i \in 1..Len(Split(c.path, ".")) |->
           PathSuffix(Split(c.path, "."), i) \o c.fieldName]

\* the hash-suffixed name of a call
FallbackName(c) == c.fieldName \o "_" \o Md5Hex(c.path \o "." \o c.fieldName)

\* C14: for a non-root field newUniqFieldName returns the first name not yet
\* reserved among: the field name, Kind + field name, the names with the path
\* segments in front taken innermost first; the hash-suffixed name only when
\* all are reserved; a name other than the fallback is reserved by the call.
C14_FirstFreeCandidate ==
    \A n \in DOMAIN naming.last :
        LET c == naming.last[n]
            free == {i \in 1..Len(Candidates(c)) : Candidates(c)[i] \notin c.before}
        IN  ~c.root =>
              IF free = {}
              THEN c.name = FallbackName(c)
              ELSE /\ c.name = Candidates(c)[CHOOSE i \in free : \A j \in free : i <= j]
                   /\ naming.structNames = c.before \cup {c.name}

\* a call for a non-root field that found the field name, Kind + field name
\* and the two shorter path names reserved
C14_Witness ==
    \E n \in DOMAIN naming.last :
        /\ ~naming.last[n].root
        /\ naming.last[n].name = "TestCaseStatusBarFoo"
        /\ {"Foo", "TestCaseFoo", "BarFoo", "StatusBarFoo"} \subseteq naming.last[n].before

\* C15 as stated: the bare field name is assigned only to a field declared
\* directly on the resource root (root = true), and only when it is not yet
\* reserved; a nested field (root = false) never receives it.
C15_BareNameOnlyOnRoot ==
    \A n \in DOMAIN naming.last :
        /\ naming.last[n].name = naming.last[n].fieldName =>
              naming.last[n].root /\ naming.last[n].fieldName \notin naming.last[n].before
        /\ ~naming.last[n].root => naming.last[n].name # naming.last[n].fieldName

\* C15, amended: the bare field name is assigned only in a call for a field
\* that is not declared directly on the resource root (root = false), and
\* only when it is not yet reserved; a call for a property declared directly
\* on the root of a resource of non-empty alphanumeric kind never returns it.
C15_BareNameOnlyNested ==
    \A n \in DOMAIN naming.last :
        /\ naming.last[n].name = naming.last[n].fieldName =>
              ~naming.last[n].root /\ naming.last[n].fieldName \notin naming.last[n].before
        /\ naming.last[n].root => naming.last[n].name # naming.last[n].fieldName

\* a nested field took the bare name after a root property of the same field
\* name was given Kind + field name, and a later root call
C15_Witness ==
    \E n \in DOMAIN naming.last :
        /\ ~naming.last[n].root
        /\ naming.last[n].name = naming.last[n].fieldName
        /\ (naming.last[n].kind \o naming.last[n].fieldName) \in naming.last[n].before

\* C16: a hash-suffixed name newUniqFieldName falls back to differs from
\* every name it returned earlier in the batch, earlier fallbacks included.
C16_FallbackIsNew ==
    \A n \in DOMAIN naming.last :
        naming.last[n].name = FallbackName(naming.last[n]) =>
            naming.last[n].name \notin naming.returned

\* the target type the mapping table gives a scalar of type t and format f
TableType(t, f) ==
    IF t = "string"
    THEN (IF f = "date-time" THEN "metav1.Time"
          ELSE IF f \in {"byte", "binary"} THEN "[]byte" ELSE "string")
    ELSE IF t \in {"integer", "number"}
    THEN (IF f \in {"int32", "int64"} THEN f
          ELSE IF f = "float" THEN "float32"
          ELSE IF f = "double" THEN "float64"
          ELSE IF t = "integer" THEN "int64" ELSE "float64")
    ELSE IF t = "boolean" THEN "bool"
    ELSE "any"

\* C17: mapType gives every (type, format) pair one target type: string,
\* metav1.Time or []byte for a string; int64 or float64 for an integer or a
\* number unless the format names another width; bool for a boolean; any for
\* every unrecognised type.
C17_MapTypeTable ==
    \A n \in DOMAIN mapping.out :
        /\ mapping.out[n] # ""
        /\ mapping.type \notin {"array", "object"} =>
              mapping.out[n] = TableType(mapping.type, mapping.format)

\* mapType was called on an integer of format double
C17_Witness ==
    /\ mapping.type = "integer"
    /\ mapping.format = "double"
    /\ mapping.out = <<"float64">>

\* the object-typed properties of the batch that declare no properties
MapRefs == {x \in BatchRefs : x.prop.type = "object" /\ DOMAIN x.prop.props = {}
                                /\ ~HasEnum(x.prop)}

\* C18: an object-typed property without properties gets map[string]T when
\* additionalProperties declares a schema of mapped type T, the opaque
\* raw-value placeholder when it is marked preserve-unknown-fields, and
\* map[string]any otherwise; no struct is generated and no name reserved.
C18_ObjectWithoutProperties ==
    (parsed # <<>> /\ ~pointers) =>
        \A x \in MapRefs :
            /\ x.type = IF x.prop.preserve THEN "apiextensionsv1.JSON"
                        ELSE IF x.prop.addl # <<>>
                        THEN "map[string]" \o mapType(x.prop.addl[1])
                        ELSE "map[string]any"
            /\ Definers(parsed[1], x.type) = {}
            /\ ToCamelCase(Last(Split(x.at[2], "."))) \in parsed[1].structNames =>
                  \E g \in GeneratedTypes(parsed[1]) :
                      g.name = ToCamelCase(Last(Split(x.at[2], ".")))

\* the version every resource of the batch has to flag as storage: the
\* pinned one, else the first storage version of the first resource
InForce ==
    IF version # "" THEN version
    ELSE IF crds # <<>> /\ \E v \in {"v1", "v2"} : Stores(1, v)
    THEN LET vs == FileTable[crds[1]].crd.Versions
         IN  vs[CHOOSE n \in 1..Len(vs) :
                    vs[n].Storage /\ \A m \in 1..(n - 1) : ~vs[m].Storage].Name
    ELSE ""

\* the k-th resource of the batch fails: unreadable file, unparsable
\* document, no matching version, or another group than the first resource
Faulty(k) ==
    \/ ~FileTable[crds[k]].readable
    \/ ~FileTable[crds[k]].yaml
    \/ ~Stores(k, InForce)
    \/ GroupOf(k) # GroupOf(1)

\* C19: if any resource of a batch fails, Parse returns no result for any
\* resource of the batch, those already compiled included, and the command
\* writes no output file.
C19_FailureAbortsBatch ==
    (\E k \in 1..Len(crds) : Faulty(k)) =>
        /\ parsed = <<>>
        /\ files = <<>>
        /\ written = <<>>
        /\ pc = "done" => ~success /\ err = "failed to parse CRDs"

\* the second resource of a batch failed after the first was compiled
C19_Witness ==
    /\ pc = "done"
    /\ Len(crds) = 2
    /\ ~Faulty(1)
    /\ Faulty(2)
    /\ Len(res.Items) = 1
    /\ ~success
    /\ parsed = <<>>

\* C20: for every input document Parse returns a type model or reports an
\* error; a document that is no well-formed CRD, has no matching version, has
\* a selected version without schema or an array property without a single
\* item schema ends in a reported error, never in an abnormal termination.
C20_ErrorNotPanic ==
    /\ pc # "panic"
    /\ (pc = "done" /\ crds # <<>>) => (success \/ logs # <<>>)

\* the data of the types files written, one per resource
TypesFiles ==
    [k \in 1..Len(SelectSeq(written, LAMBDA f : ContainsString(f.name, "/types_"))) |->
        written[k].content]

\* the structs the written files declare besides the root structs
OutStructs ==
    UNION {{TypesFiles[k].Structs[n] : n \in 1..Len(TypesFiles[k].Structs)}
           : k \in DOMAIN TypesFiles}

\* the type names the fields of a struct refer to
FieldRefs(d) == {BaseType(d.Fields[f].Type) : f \in 1..Len(d.Fields)}

RECURSIVE ReachFrom(_)
\* the type names reachable from the names S through the fields of the
\* structs written
ReachFrom(S) ==
    LET more == S \cup UNION {FieldRefs(d) : d \in {x \in OutStructs : x.Name \in S}}
    IN  IF more = S THEN S ELSE ReachFrom(more)

\* the type names reachable from the root structs as they are written
Reachable == ReachFrom(UNION {FieldRefs(TypesFiles[k].Root) : k \in DOMAIN TypesFiles})

\* C21: the output of a batch is minimal: every struct generated in the batch
\* is reachable from some resource's root struct through its retained spec
\* or status field.
C21_EveryStructReachable ==
    (written # <<>> /\ err = "") => \A d \in OutStructs : d.Name \in Reachable

\* the properties of x occur in no other object schema of the batch
OwnShape(x) == \A z \in BatchRefs : z.at # x.at => z.schema.props # x.schema.props

\* C22 as stated: when two resources each declare a nested object property of
\* the same key and of different shapes, the resource submitted earlier gets
\* the bare type name and the later one a prefixed name, in either order.
C22_AnyEarlierResourceGetsBareName ==
    parsed # <<>> =>
        \A x, y \in NestedRefs :
            (x.at[1] < y.at[1] /\ KeyOf(x) = KeyOf(y)
               /\ x.schema.props # y.schema.props) =>
                /\ x.type = ToCamelCase(KeyOf(x))
                /\ y.type # ToCamelCase(KeyOf(y))
                /\ HasSuffix(y.type, ToCamelCase(KeyOf(y)))

\* C22, amended: resources are compiled in submission order against one
\* registry: when two resources with non-empty kinds each declare a nested
\* object property with properties and without enum literals (or an array of
\* such objects), of the same key and of different shapes, neither shape
\* occurs anywhere else in the batch, and no other nested struct or enum of
\* the batch has a name that ends in the PascalCase of the key, the resource
\* submitted earlier gets the bare type name PascalCase(key) and the later
\* one that name with its kind in front, each struct generated in its own
\* resource, in either submission order.
C22_EarlierResourceGetsBareName ==
    parsed # <<>> =>
        \A x, y \in NestedRefs :
            (/\ x.at[1] < y.at[1]
             /\ KeyOf(x) = KeyOf(y)
             /\ x.schema.props # y.schema.props
             /\ parsed[1].Items[x.at[1]].Kind # ""
             /\ parsed[1].Items[y.at[1]].Kind # ""
             /\ OwnShape(x)
             /\ OwnShape(y)
             /\ \A n \in NestedNames :
                   HasSuffix(n, ToCamelCase(KeyOf(x))) => n \in {x.type, y.type}) =>
                /\ x.type = ToCamelCase(KeyOf(x))
                /\ y.type = parsed[1].Items[y.at[1]].Kind \o ToCamelCase(KeyOf(y))
                /\ y.type # ToCamelCase(KeyOf(y))
                /\ y.type \in DOMAIN parsed[1].Items[y.at[1]].Structs
                /\ x.type \in DOMAIN parsed[1].Items[x.at[1]].Structs

\* kind Gadget submitted before kind Widget: the widget property of Gadget
\* has the bare name and the one of Widget the name with its kind in front;
\* in the same batch the ref property that Gadget declares twice and the
\* pool property whose shape Gadget compiled before fall outside the claim
C22_Witness ==
    /\ parsed # <<>>
    /\ Len(parsed[1].Items) = 2
    /\ parsed[1].Items[1].Kind = "Gadget"
    /\ parsed[1].Items[2].Kind = "Widget"
    /\ \E x, y \in NestedRefs :
          /\ x.at = <<1, ".spec.widget">> /\ x.type = "Widget" /\ OwnShape(x)
          /\ y.at = <<2, ".spec.widget">> /\ y.type = "WidgetWidget" /\ OwnShape(y)
          /\ \A n \in NestedNames : HasSuffix(n, "Widget") => n \in {x.type, y.type}
    /\ \E x, y \in NestedRefs :
          /\ x.at = <<1, ".status.ref">> /\ x.type = "GadgetRef" /\ OwnShape(x)
          /\ y.at = <<2, ".spec.ref">> /\ y.type = "WidgetRef" /\ OwnShape(y)
    /\ \E x, y \in NestedRefs :
          /\ x.at = <<1, ".spec.pool">> /\ x.type = "Limits" /\ ~OwnShape(x)
          /\ y.at = <<2, ".spec.pool">> /\ y.type = "Pool" /\ OwnShape(y)

\* the object schemas of the batch that generateStructProperty is called on
CompiledRefs ==
    {x \in BatchRefs : ~HasEnum(x.prop)
                        /\ (DOMAIN x.schema.props # {} \/ x.prop.type = "array")}

\* the signatures met in the batch
Signatures ==
    {getHashProperties(x.schema.props, iterOrder) : x \in CompiledRefs}
    \cup {getHashEnum(e.enum) : e \in BatchEnumRefs}

\* the registry Parse returned, with the k-th resource as the one compiled
RegistryAt(k) ==
    [structHashes |-> parsed[1].structHashes, structNames |-> parsed[1].structNames,
     cr |-> parsed[1].Items[k], panic |-> FALSE]

\* C24: the registry is modified by one encounter per distinct signature, the
\* first; a later encounter of the signature returns the memoized name,
\* leaves both maps unchanged and generates no struct or enum definition.
C24_OneMutationPerSignature ==
    parsed # <<>> =>
        /\ Cardinality(DOMAIN parsed[1].structHashes) = Cardinality(Signatures)
        /\ \A x \in CompiledRefs :
              /\ Cardinality(Definers(parsed[1], x.type)) = 1
              /\ LET g == generateStructProperty(RegistryAt(x.at[1]), x.schema,
                                                 ToCamelCase(KeyOf(x)), "Later.path",
                                                 KeyOf(x), FALSE, iterOrder)
                 IN  g.env = RegistryAt(x.at[1]) /\ g.fieldType = x.type
        /\ \A e \in BatchEnumRefs :
              /\ Cardinality({f \in EnumFields(parsed[1]) : f.field.EnumName = e.type}) = 1
              /\ LET g == generateEnumStruct(RegistryAt(e.at[1]),
                                             [Blank EXCEPT !.type = "string", !.enum = e.enum],
                                             ToCamelCase(KeyOf(e)),
                                             NewField(ToCamelCase(KeyOf(e)), KeyOf(e), Blank),
                                             "Later.path")
                 IN  /\ g.env = RegistryAt(e.at[1])
                     /\ g.fieldType = e.type
                     /\ g.field.Enums = <<>>

\* a batch in which a struct signature recurs in another resource and an enum
\* signature recurs in one resource
C24_Witness ==
    /\ parsed # <<>>
    /\ \E x, y \in CompiledRefs :
          x.at[1] # y.at[1] /\ x.schema.props = y.schema.props /\ x.type = y.type
    /\ \E e, f \in BatchEnumRefs : e.at # f.at /\ e.enum = f.enum /\ e.type = f.type

\* the structs of the k-th types file, its root struct included
FileStructs(k) ==
    {TypesFiles[k].Root} \cup {TypesFiles[k].Structs[n] : n \in 1..Len(TypesFiles[k].Structs)}

\* the struct and enum names Parse generated
GeneratedNames ==
    {g.name : g \in {h \in GeneratedTypes(parsed[1]) : h.kind = "enum" \/ h.name \in
                        UNION {DOMAIN parsed[1].Items[k].Structs
                               : k \in 1..Len(parsed[1].Items)}}}

\* the definitions of the name n in the files written: structs of a struct
\* map and enums carried by a field
DefinitionsOf(n) ==
    UNION {   {<<k, "struct", m>> : m \in {j \in 1..Len(TypesFiles[k].Structs) :
                                            TypesFiles[k].Structs[j].Name = n}}
         \cup UNION {{<<k, d.Name, f>> : f \in {j \in 1..Len(d.Fields) :
                                            d.Fields[j].EnumName = n /\ d.Fields[j].Enums # <<>>}}
                     : d \in FileStructs(k)}
          : k \in DOMAIN TypesFiles}

\* C25: every generated struct or enum name used as a field type in the
\* rendered batch has exactly one definition in the output: a struct of some
\* resource's struct map, or an enum carried by a field that is still present
\* after root filtering.
C25_UsedNameDefinedOnce ==
    (written # <<>> /\ err = "") =>
        \A n \in GeneratedNames :
            (\E k \in DOMAIN TypesFiles : \E d \in FileStructs(k) : n \in FieldRefs(d)) =>
                Cardinality(DefinitionsOf(n)) = 1

\* C26: the pointer conversion adds at most one pointer marker to a field
\* type: after it no field type begins with two markers, so the placeholder
\* *apiextensionsv1.JSON of an untyped property is not wrapped again.
C26_OnePointerMarker ==
    [][(pc = "parse" /\ pc' = "render" /\ pointers) =>
          \A k \in 1..Len(res'.Items) :
             \A n \in DOMAIN FieldTypes(res')[k] :
                \A f \in DOMAIN FieldTypes(res')[k][n] :
                   /\ ~HasPrefix(FieldTypes(res')[k][n][f], "**")
                   /\ HasPrefix(FieldTypes(res)[k][n][f], "*") =>
                         FieldTypes(res')[k][n][f] = FieldTypes(res)[k][n][f]]_vars

\* C27: within every generated struct the field identifiers are pairwise
\* distinct, also for property keys that differ only in separator characters
\* or in the case of a word's first letter.
C27_FieldNamesDistinct ==
    parsed # <<>> =>
        \A k \in 1..Len(parsed[1].Items) :
            \A d \in StructDefs(parsed[1].Items[k]) :
                \A f, g \in 1..Len(d.Fields) :
                    d.Fields[f].Name = d.Fields[g].Name => f = g

\* C28: after a successful Parse, Items and Names hold one entry per input
\* resource in submission order, every item has the group and the version of
\* the batch, and the batch's version is the requested one or, when none was
\* requested, the storage version of the first resource.
C28_ItemsFollowSubmission ==
    parsed # <<>> =>
        /\ Len(parsed[1].Items) = Len(crds)
        /\ Len(parsed[1].Names) = Len(crds)
        /\ \A k \in 1..Len(crds) :
              /\ IsCRD(k)
              /\ parsed[1].Items[k].Kind = KindOf(k)
              /\ parsed[1].Names[k].Kind = KindOf(k)
              /\ parsed[1].Names[k].List = FileTable[crds[k]].crd.ListKind
              /\ parsed[1].Items[k].group = parsed[1].Group
              /\ parsed[1].Items[k].group = GroupOf(k)
              /\ parsed[1].Items[k].version = parsed[1].Version
              /\ Stores(k, parsed[1].Version)
        /\ parsed[1].Version = InForce
        /\ (version = "" /\ crds # <<>>) => Stores(1, parsed[1].Version)

\* a batch of two resources of different kinds was compiled without a
\* requested version
C28_Witness ==
    /\ parsed # <<>>
    /\ version = ""
    /\ Len(crds) = 2
    /\ KindOf(1) # KindOf(2)
    /\ Len(parsed[1].Items) = 2
    /\ parsed[1].Items[2].Kind = KindOf(2)

RECURSIVE TypeRefs(_)
\* the type names an expression refers to: <<"", name>> for an identifier,
\* <<package, name>> for a qualified one
TypeRefs(t) ==
    CASE t.node = "StructType" -> UNION {TypeRefs(t.Fields[f].Type) : f \in 1..Len(t.Fields)}
      [] t.node = "StarExpr" -> TypeRefs(t.X)
      [] t.node = "ArrayType" -> TypeRefs(t.Elt)
      [] t.node = "MapType" -> TypeRefs(t.Key) \cup TypeRefs(t.Value)
      [] t.node = "Ident" -> {<<"", t.Name>>}
      [] t.node = "SelectorExpr" -> {<<t.X, t.Sel>>}
      [] OTHER -> {}

\* the names of the declarations in the file generate wrote
Declared == {job.out[1].decls[d].Name : d \in 1..Len(job.out[1].decls)}

\* C23: when flatten-crd-api has written its output, every type name an
\* emitted declaration refers to is a basic type, is qualified by an emitted
\* import of the standard library or of an allowed package, or is declared in
\* the output itself.
C23_OutputClosed ==
    job.at = "exit" =>
        \A d \in 1..Len(job.out[1].decls) :
            \A r \in TypeRefs(job.out[1].decls[d].Type) :
                IF r[1] = ""
                THEN isBasicType(r[2]) \/ r[2] \in Declared
                ELSE \E p \in DOMAIN job.out[1].imports :
                        /\ job.out[1].imports[p] = r[1]
                        /\ isStdLib(p) \/ p \in DOMAIN allowedPkgs

\* C29: over any sequence of enqueue calls, two calls return the same local
\* name exactly if they were made for the same (package path, type name) key,
\* and the name returned is the one recorded for the key.
C29_OneNamePerKey ==
    job.at = "enqueue" =>
        \A i, j \in 1..Len(job.calls) :
            /\ (job.calls[i].key = job.calls[j].key) <=> (job.calls[i].ln = job.calls[j].ln)
            /\ ex.processed[job.calls[i].key] = job.calls[i].ln

\* three packages declare Condition: the third got the numbered name, and a
\* later call for the second got the second's name again
C29_Witness ==
    /\ job.at = "enqueue"
    /\ Len(job.calls) = 4
    /\ job.calls[1].key = typeKey(ApiPath, "Condition")
    /\ job.calls[2] = [key |-> typeKey(CommonPath, "Condition"), ln |-> "CommonCondition"]
    /\ job.calls[3] = [key |-> typeKey(AltPath, "Condition"), ln |-> "CommonCondition2"]
    /\ job.calls[4] = job.calls[2]

\* no element occurs twice in seq
NoRepeat(seq) == \A i, j \in 1..Len(seq) : seq[i] = seq[j] => i = j

\* C30: every run of flatten-crd-api leaves the loop of process and exits,
\* also for types that refer to each other in a cycle, and no key is put on
\* the queue or extracted more than once.
C30_ProcessTerminates ==
    /\ [](job.at \in {"main", "process", "exit"} =>
             NoRepeat(job.queued) /\ NoRepeat(job.extracted))
    /\ <>(job.at = "exit")

\* Part and Assembly, which refer to each other, were both extracted and the
\* command has exited
C30_Witness ==
    /\ job.at = "exit"
    /\ job.types = <<"Part">>
    /\ job.extracted = <<typeKey(ApiPath, "Part"), typeKey(ApiPath, "Assembly")>>
    /\ job.queued = job.extracted

====
